---- MODULE Spec2Model ----
(***************************************************************************)
(* The FXT telemetry SDK (src/unnamed/part_000): the per-field metric      *)
(* store, the pain-point summary, the event queue with its two transports  *)
(* and the session lifecycle, as a state machine whose steps are the       *)
(* handlers the host's event loop runs to completion one at a time.        *)
(***************************************************************************)
EXTENDS Integers, Sequences, FiniteSets, TLC

(***************************************************************************)
(* Bounds of the model.                                                    *)
(***************************************************************************)
\* the largest batchSize a configuration passes to init
MaxBatchSize == 4
\* Event Records created in one behaviour (each gets the next identifier)
MaxEvents == 4
\* calls of FXT.init that run its body
MaxInits == 2
\* form notices (focus, blur, change, ...) handled in one behaviour
MaxNotices == 5
\* structural-change notices the observer reports in one behaviour
MaxMutations == 3
\* Event Records created in one behaviour of a page that starts, stops and
\* starts again
MaxRestartEvents == 8
\* form notices handled in one behaviour in which every kind of notice, the
\* summaries and the lifecycle calls interleave
MaxMetricNotices == 2
\* Event Records created in one behaviour of the session whose metrics are
\* summarized twice with notices before and between
MaxMetricEvents == 7
\* Event Records created in one behaviour of the session that is stopped
\* after two of its batch requests failed
MaxStopEvents == 5

(***************************************************************************)
(* Program constants.                                                      *)
(***************************************************************************)
ValidationFailuresThreshold == 2
TimeSpentThreshold == 30000
FocusCountThreshold == 3
EditCountThreshold == 5
ClearCountThreshold == 1

\* JavaScript's null and undefined, where the value is otherwise a string
Null == "null"
Undefined == "undefined"
\* a nullable number or identifier is the empty sequence (null) or <<v>>
None == <<>>
Some(v) == <<v>>

\* the paths cssPath gives the form's fields
Fields == {"A", "B"}
\* the readings of the page clock (perfNow) a behaviour can take, in ms
Instants == {0, 100, 200, 300, 500}
\* sendBeacon queues the body (true), refuses it (false), or throws
BeaconOutcomes == {"queued", "refused", "throws"}
\* the arguments a caller passes to FXT.stepTransition
StepArgs == {Undefined, "1"}

Min(a, b) == IF a <= b THEN a ELSE b

\* Math.round(x / d) for integers x >= 0 and d > 0: halves round up
MathRoundDiv(x, d) == (2 * x + d) \div (2 * d)

VARIABLES
  batchSize,            \* FXT._config.batchSize
  sessionId,            \* FXT._sessionId: None or Some(n), the n-th identifier drawn
  isInitialized,        \* FXT._isInitialized
  isUnloading,          \* FXT._isUnloading (undefined before init: falsy)
  events,               \* FXT._events, the Event Queue
  flushTimer,           \* FXT._flushTimer: Null, "live" (id of a pending timeout)
                        \* or "stale" (id of a timeout that was cleared)
  flushPending,         \* host: pending timeouts whose callback is the periodic flush
  initCount,            \* times the body of FXT.init ran: each run installs one
                        \* layer of fetch/XHR/console wrappers, one pair of
                        \* unload/visibility listeners and one heartbeat interval
  formFound,            \* host: document.querySelector(formSelector) finds the form
  hasBeacon,            \* host: navigator.sendBeacon exists
  fieldMetrics,         \* FXT._fieldMetrics: the records in key insertion order
  currentFocusedField,  \* FXT._currentFocusedField: None or Some(path)
  fieldFocusStartTime,  \* FXT._fieldFocusStartTime: None or Some(ms)
  now,                  \* host: the value perfNow() returns
  inflight,             \* host: the fetch requests not yet settled, oldest first
  delivered,            \* history: the records of the batches whose delivery has
                        \* ended, each with how it ended
  nextId,               \* history: the identifier the next Event Record gets
  failures,             \* history: batch requests rejected so far (2: two or more)
  hist,                 \* history: the form notices handled so far
  last,                 \* history: the last handler: its name, the calls it made
                        \* in order, and for a settled request its records' ids
  maxMutationRecordsPerBatch,  \* FXT._config.maxMutationRecordsPerBatch
  moConnected,          \* the observer FXT._mo exists and is connected
  mutationBuffer,       \* FXT._mutationBuffer, the coalescing buffer
  mutationTimer,        \* FXT._mutationTimer: Null or "live"
  mutationPending,      \* host: pending timeouts whose callback drains the buffer
  mutationCount,        \* history: the notices buffered so far (the n-th is n)
  stoppedAt,            \* history: None, or Some(initCount) at the last call of stop
  hasMutationObserver,  \* host: MutationObserver exists
  eventLimit,           \* the Event Records one behaviour may create
  selectorParses        \* host: document.querySelector accepts the formSelector
                        \* the page configures (it throws a SyntaxError for a
                        \* string that is not a selector)

vars == <<batchSize, sessionId, isInitialized, isUnloading, events, flushTimer,
          flushPending, initCount, formFound, hasBeacon, fieldMetrics,
          currentFocusedField, fieldFocusStartTime, now, inflight, delivered,
          nextId, failures, hist, last, maxMutationRecordsPerBatch, moConnected,
          mutationBuffer, mutationTimer, mutationPending, mutationCount,
          stoppedAt, hasMutationObserver, eventLimit, selectorParses>>

configVars == <<batchSize, formFound, hasBeacon>>
timerVars == <<flushTimer, flushPending>>
metricVars == <<fieldMetrics, currentFocusedField, fieldFocusStartTime>>
coalescerVars == <<mutationBuffer, mutationTimer, mutationPending, mutationCount>>
hostVars == <<hasMutationObserver, eventLimit, selectorParses>>
\* what only init, stop and the coalescer write
lifecycleVars == <<maxMutationRecordsPerBatch, moConnected, stoppedAt, coalescerVars, hostVars>>

\* FXT._startedAt = perfNow() when the script is evaluated
startedAt == 0

(***************************************************************************)
(* Event Records.  id is not a property of the JavaScript object: it names *)
(* the object (the n-th record made) so that the places it is in can be    *)
(* told apart.                                                             *)
(***************************************************************************)
makeEvent(id, type, t, data) == [id |-> id, type |-> type, t |-> t, data |-> data]

\* JSON.parse(JSON.stringify(e)): a property whose value is undefined is left
\* out of the text, so the parsed object does not have it.  Only a
\* step-transition record can carry undefined (the caller's arguments).
JsonRoundTrip(e) ==
  IF e.type = "step-transition"
    THEN [e EXCEPT !.data =
            [k \in {j \in DOMAIN e.data : e.data[j] # Undefined} |-> e.data[k]]]
    ELSE e

JsonEvents(evs) == [i \in 1..Len(evs) |-> JsonRoundTrip(evs[i])]

\* the text of a payload, named by the value JSON.parse gives back for it
JsonStringify(payload) == [payload EXCEPT !.events = JsonEvents(@)]

Ids(evs) == [i \in 1..Len(evs) |-> evs[i].id]

(***************************************************************************)
(* Event queue and sender.  A handler runs on the record s of the fields   *)
(* it can read and write: the FXT fields, the host's pending requests and  *)
(* the history fields.  bo[k] is the outcome of the k-th sendBeacon call   *)
(* of the running handler (every call after the second behaves as the      *)
(* second).                                                                *)
(***************************************************************************)
FXTState ==
  [events |-> events, batchSize |-> batchSize, sessionId |-> sessionId,
   isUnloading |-> isUnloading, fieldMetrics |-> fieldMetrics,
   currentFocusedField |-> currentFocusedField,
   fieldFocusStartTime |-> fieldFocusStartTime,
   inflight |-> inflight, delivered |-> delivered,
   nextId |-> nextId, failures |-> failures, wraps |-> initCount,
   beaconCalls |-> 0, trace |-> <<>>, arg |-> <<>>]

\* slice in place of splice: the front is copied and stays in the queue
spliceKept_Slice(evs, n) == evs

\* the batch takes one record more than batchSize
spliceRemoved_OneMore(evs, n) == SubSeq(evs, 1, Min(n + 1, Len(evs)))

\* Array.prototype.splice(0, n): the removed front and what stays
spliceRemoved(evs, n) == SubSeq(evs, 1, Min(n, Len(evs)))
spliceKept(evs, n) == SubSeq(evs, Min(n, Len(evs)) + 1, Len(evs))

BeaconOutcome(bo, k) == bo[Min(k, 2)]

\* the records of a batch whose delivery ended by via
Delivered(body, via) == {[id |-> body.events[i].id, via |-> via] : i \in 1..Len(body.events)}

\* the fetch branch of flush: the request is pending until the host settles it
SubmitFetch(q, body) ==
  [q EXCEPT !.inflight = Append(@, [body |-> body, wraps |-> q.wraps]),
            !.trace = Append(@, "fetch")]

\* flush without the return after an accepted sendBeacon: the batch goes on
\* to fetch as well
flush_NoReturn(q, bo) ==
  IF Len(q.events) = 0
    THEN [q EXCEPT !.trace = Append(@, "flush-empty")]
    ELSE
      LET payload == [sessionId |-> q.sessionId, startedAt |-> startedAt,
                      events |-> spliceRemoved(q.events, q.batchSize)]
          body == JsonStringify(payload)
          q1 == [q EXCEPT !.events = spliceKept(q.events, q.batchSize),
                          !.trace = Append(@, "flush")]
      IN IF hasBeacon /\ q.isUnloading
           THEN LET k == q.beaconCalls + 1
                    out == BeaconOutcome(bo, k)
                    q2 == [q1 EXCEPT !.beaconCalls = k,
                                     !.trace = Append(@, "beacon-" \o out)]
                IN IF out = "queued"
                     THEN SubmitFetch([q2 EXCEPT !.delivered =
                                         @ \cup Delivered(body, "beacon")], body)
                     ELSE SubmitFetch(q2, body)
           ELSE SubmitFetch(q1, body)

flush(q, bo) ==
  IF Len(q.events) = 0
    THEN [q EXCEPT !.trace = Append(@, "flush-empty")]
    ELSE
      LET payload == [sessionId |-> q.sessionId, startedAt |-> startedAt,
                      events |-> spliceRemoved(q.events, q.batchSize)]
          body == JsonStringify(payload)
          q1 == [q EXCEPT !.events = spliceKept(q.events, q.batchSize),
                          !.trace = Append(@, "flush")]
      IN IF hasBeacon /\ q.isUnloading
           THEN LET k == q.beaconCalls + 1
                    out == BeaconOutcome(bo, k)
                    q2 == [q1 EXCEPT !.beaconCalls = k,
                                     !.trace = Append(@, "beacon-" \o out)]
                IN IF out = "queued"
                     THEN [q2 EXCEPT !.delivered = @ \cup Delivered(body, "beacon")]
                     ELSE SubmitFetch(q2, body)
           ELSE SubmitFetch(q1, body)

\* enqueue that flushes only above batchSize
enqueue_Above(q, bo, type, t, data) ==
  LET evt == makeEvent(q.nextId, type, t, data)
      q1 == [q EXCEPT !.events = Append(@, evt), !.nextId = @ + 1,
                      !.trace = Append(@, "enqueue")]
  IN IF Len(q1.events) > q1.batchSize THEN flush(q1, bo) ELSE q1

enqueue(q, bo, type, t, data) ==
  LET evt == makeEvent(q.nextId, type, t, data)
      q1 == [q EXCEPT !.events = Append(@, evt), !.nextId = @ + 1,
                      !.trace = Append(@, "enqueue")]
  IN IF Len(q1.events) >= q1.batchSize THEN flush(q1, bo) ELSE q1

(***************************************************************************)
(* Metric Store and pain-point summary.                                    *)
(***************************************************************************)
NewMetrics(fieldPath) ==
  [field |-> fieldPath, focusCount |-> 0, totalTimeSpent |-> 0, editCount |-> 0,
   validationFailures |-> 0, lastValueLength |-> 0, backspaceCount |-> 0,
   pasteCount |-> 0, clearCount |-> 0, lastError |-> None]

HasMetrics(fm, fieldPath) == \E i \in 1..Len(fm) : fm[i].field = fieldPath
MetricsIndex(fm, fieldPath) == CHOOSE i \in 1..Len(fm) : fm[i].field = fieldPath

\* initFieldMetrics making a fresh record also when the field has one
initFieldMetrics_Fresh(fm, fieldPath) ==
  IF HasMetrics(fm, fieldPath)
    THEN [fm EXCEPT ![MetricsIndex(fm, fieldPath)] = NewMetrics(fieldPath)]
    ELSE Append(fm, NewMetrics(fieldPath))

\* initFieldMetrics: the store with a record for fieldPath (made when missing)
initFieldMetrics(fm, fieldPath) ==
  IF HasMetrics(fm, fieldPath) THEN fm ELSE Append(fm, NewMetrics(fieldPath))

\* getFieldMetrics: None when the store has no record for fieldPath
getFieldMetrics(fm, fieldPath) ==
  IF HasMetrics(fm, fieldPath) THEN Some(fm[MetricsIndex(fm, fieldPath)]) ELSE None

FieldSummary(m) ==
  [field |-> m.field, focusCount |-> m.focusCount,
   totalTimeSpentMs |-> m.totalTimeSpent, editCount |-> m.editCount,
   validationFailures |-> m.validationFailures,
   backspaceCount |-> m.backspaceCount, pasteCount |-> m.pasteCount,
   clearCount |-> m.clearCount]

\* the edit threshold met at 5 edits already
IsPainPoint_AtLeast(m) ==
  \/ m.validationFailures > ValidationFailuresThreshold
  \/ m.totalTimeSpent > TimeSpentThreshold
  \/ m.focusCount > FocusCountThreshold
  \/ m.editCount >= EditCountThreshold
  \/ m.clearCount > ClearCountThreshold

IsPainPoint(m) ==
  \/ m.validationFailures > ValidationFailuresThreshold
  \/ m.totalTimeSpent > TimeSpentThreshold
  \/ m.focusCount > FocusCountThreshold
  \/ m.editCount > EditCountThreshold
  \/ m.clearCount > ClearCountThreshold

PainPointReasons(m) ==
  [repeatedValidationFailures |-> m.validationFailures > ValidationFailuresThreshold,
   excessiveTimeSpent |-> m.totalTimeSpent > TimeSpentThreshold,
   multipleReturns |-> m.focusCount > FocusCountThreshold,
   manyEdits |-> m.editCount > EditCountThreshold,
   multipleClears |-> m.clearCount > ClearCountThreshold]

PainPoints(fm) ==
  LET flagged == SelectSeq(fm, IsPainPoint)
  IN [i \in 1..Len(flagged) |->
        [field |-> flagged[i].field, reasons |-> PainPointReasons(flagged[i]),
         metrics |-> FieldSummary(flagged[i])]]

\* a summary that never names a drop-off field
FieldAnalytics_NoDropOff(fm, focused, reason) ==
  LET painPoints == PainPoints(fm)
      fieldSummaries == [i \in 1..Len(fm) |-> FieldSummary(fm[i])]
  IN [reason |-> reason, dropOffField |-> None,
      totalFieldsInteracted |-> Len(fieldSummaries), painPoints |-> painPoints,
      painPointCount |-> Len(painPoints), allFieldMetrics |-> fieldSummaries]

FieldAnalytics(fm, focused, reason) ==
  LET painPoints == PainPoints(fm)
      fieldSummaries == [i \in 1..Len(fm) |-> FieldSummary(fm[i])]
  IN [reason |-> reason, dropOffField |-> focused,
      totalFieldsInteracted |-> Len(fieldSummaries), painPoints |-> painPoints,
      painPointCount |-> Len(painPoints), allFieldMetrics |-> fieldSummaries]

\* a summary that is skipped while the Metric Store is empty
sendFieldMetricsSummary_SkipsEmpty(q, bo, t, reason) ==
  IF Len(q.fieldMetrics) = 0
    THEN q
    ELSE enqueue(q, bo, "field-analytics", t,
                 FieldAnalytics(q.fieldMetrics, q.currentFocusedField, reason))

\* a summary that starts the counters afresh once it has reported them
sendFieldMetricsSummary_Resets(q, bo, t, reason) ==
  [enqueue(q, bo, "field-analytics", t,
           FieldAnalytics(q.fieldMetrics, q.currentFocusedField, reason))
     EXCEPT !.fieldMetrics = [i \in 1..Len(q.fieldMetrics) |->
                                NewMetrics(q.fieldMetrics[i].field)]]

sendFieldMetricsSummary(q, bo, t, reason) ==
  enqueue(q, bo, "field-analytics", t,
          FieldAnalytics(q.fieldMetrics, q.currentFocusedField, reason))

(***************************************************************************)
(* The state after the script is evaluated, and how a handler's result     *)
(* becomes the next state.                                                 *)
(***************************************************************************)
DefaultBatchSize == 25
DefaultMaxMutationRecordsPerBatch == 8

\* the FXT fields and the host's timers and requests once the script has run
Loaded ==
  /\ batchSize = DefaultBatchSize
  /\ maxMutationRecordsPerBatch = DefaultMaxMutationRecordsPerBatch
  /\ sessionId = None
  /\ isInitialized = FALSE
  /\ isUnloading = FALSE
  /\ events = <<>>
  /\ flushTimer = Null
  /\ flushPending = 0
  /\ initCount = 0
  /\ moConnected = FALSE
  /\ mutationBuffer = <<>>
  /\ mutationTimer = Null
  /\ mutationPending = 0
  /\ mutationCount = 0
  /\ stoppedAt = None
  /\ fieldMetrics = <<>>
  /\ currentFocusedField = None
  /\ fieldFocusStartTime = None
  /\ now = 0
  /\ inflight = <<>>
  /\ delivered = {}
  /\ nextId = 1
  /\ failures = 0
  /\ hist = <<>>
  /\ last = [op |-> "load", trace |-> <<>>, arg |-> <<>>]

Init ==
  /\ Loaded
  /\ formFound \in BOOLEAN
  /\ hasBeacon \in BOOLEAN
  /\ hasMutationObserver = TRUE
  /\ eventLimit = MaxEvents
  /\ selectorParses = TRUE

\* the handler op ends with the fields s
Commit(s, op) ==
  /\ events' = s.events
  /\ batchSize' = s.batchSize
  /\ sessionId' = s.sessionId
  /\ isUnloading' = s.isUnloading
  /\ fieldMetrics' = s.fieldMetrics
  /\ currentFocusedField' = s.currentFocusedField
  /\ fieldFocusStartTime' = s.fieldFocusStartTime
  /\ inflight' = s.inflight
  /\ delivered' = s.delivered
  /\ nextId' = s.nextId
  /\ failures' = s.failures
  /\ last' = [op |-> op, trace |-> s.trace, arg |-> s.arg]

\* F applied n times: a notice runs every listener registered for it, in turn
Repeat(F(_), n, s) ==
  LET f[k \in 0..n] == IF k = 0 THEN s ELSE F(f[k - 1]) IN f[n]

\* flush calls sendBeacon only when it exists and the unloading flag is set:
\* otherwise the oracle is not read
BeaconOracles(unloading) ==
  IF hasBeacon /\ unloading THEN [1..2 -> BeaconOutcomes] ELSE {[k \in 1..2 |-> "refused"]}

\* the handler may create up to n more Event Records
Budget(n) == nextId + n <= eventLimit + 1

(***************************************************************************)
(* Periodic flush.                                                         *)
(***************************************************************************)
\* scheduleFlush: <<FXT._flushTimer, pending timeouts>> after the call
scheduleFlush(ft, fp) == IF ft # Null THEN <<ft, fp>> ELSE <<"live", fp + 1>>

\* stop without clearTimeout
clearFlushTimer_Missing(ft, fp) == <<ft, fp>>

\* stop setting FXT._flushTimer to null and leaving the timeout pending
clearFlushTimer_NullsField(ft, fp) == <<Null, fp>>

\* clearTimeout(FXT._flushTimer): the field keeps the identifier it held
clearFlushTimer(ft, fp) == IF ft = "live" THEN <<"stale", fp - 1>> ELSE <<ft, fp>>

FlushTimerFires ==
  /\ flushPending > 0
  /\ \E bo \in BeaconOracles(isUnloading) :
       LET sched == scheduleFlush(Null, flushPending - 1)
       IN /\ Commit(flush(FXTState, bo), "flush-timer")
          /\ flushTimer' = sched[1]
          /\ flushPending' = sched[2]
  /\ UNCHANGED <<isInitialized, initCount, formFound, hasBeacon, now, hist,
                 lifecycleVars>>

(***************************************************************************)
(* Public API: init, stop, stepTransition.                                 *)
(***************************************************************************)
\* makeSessionId: the identifier after the one FXT._sessionId holds
NextSessionId == IF sessionId = None THEN 1 ELSE sessionId[1] + 1

\* init without the test of FXT._isInitialized: every call runs the body
initWith_NoGuard(bs, mm) ==
  /\ initCount < MaxInits
  /\ Budget(1)
  /\ \E bo \in BeaconOracles(FALSE) :
       LET s0 == [FXTState EXCEPT !.batchSize = bs,
                                  !.sessionId = Some(initCount + 1),
                                  !.isUnloading = FALSE,
                                  !.wraps = initCount + 1]
           s1 == enqueue(s0, bo, "session-start", now, [url |-> "pathname"])
           sched == scheduleFlush(flushTimer, flushPending)
       IN /\ Commit(s1, "init")
          /\ flushTimer' = sched[1]
          /\ flushPending' = sched[2]
  /\ isInitialized' = TRUE
  /\ initCount' = initCount + 1
  /\ maxMutationRecordsPerBatch' = mm
  /\ moConnected' = (IF formFound /\ hasMutationObserver THEN TRUE ELSE moConnected)
  /\ UNCHANGED <<formFound, hasBeacon, now, hist, stoppedAt, coalescerVars, hostVars>>

\* FXT.init(opts) with opts.batchSize = bs, opts.maxMutationRecordsPerBatch = mm.
\* document.querySelector is called after the configuration, the session
\* identifier and the two flags are assigned and before anything is installed:
\* when it throws, init ends there and the exception reaches the caller.
initWith(bs, mm) ==
  IF isInitialized
    THEN /\ last' = [op |-> "init", trace |-> <<"return">>, arg |-> <<>>]
         /\ UNCHANGED <<batchSize, sessionId, isInitialized, isUnloading, events,
                        flushTimer, flushPending, initCount, formFound, hasBeacon,
                        fieldMetrics, currentFocusedField, fieldFocusStartTime, now,
                        inflight, delivered, nextId, failures, hist, lifecycleVars>>
    ELSE IF ~selectorParses
    THEN /\ NextSessionId <= MaxInits
         /\ batchSize' = bs
         /\ maxMutationRecordsPerBatch' = mm
         /\ sessionId' = Some(NextSessionId)
         /\ isUnloading' = FALSE
         /\ isInitialized' = TRUE
         /\ last' = [op |-> "init", trace |-> <<"throw">>, arg |-> <<>>]
         /\ UNCHANGED <<events, flushTimer, flushPending, initCount, formFound,
                        hasBeacon, fieldMetrics, currentFocusedField,
                        fieldFocusStartTime, now, inflight, delivered, nextId,
                        failures, hist, moConnected, stoppedAt, coalescerVars,
                        hostVars>>
    ELSE /\ initCount < MaxInits
         /\ NextSessionId <= MaxInits
         /\ Budget(1)
         /\ \E bo \in BeaconOracles(FALSE) :
              LET s0 == [FXTState EXCEPT !.batchSize = bs,
                                         !.sessionId = Some(NextSessionId),
                                         !.isUnloading = FALSE,
                                         !.wraps = initCount + 1]
                  s1 == enqueue(s0, bo, "session-start", now, [url |-> "pathname"])
                  sched == scheduleFlush(flushTimer, flushPending)
              IN /\ Commit(s1, "init")
                 /\ flushTimer' = sched[1]
                 /\ flushPending' = sched[2]
         /\ isInitialized' = TRUE
         /\ initCount' = initCount + 1
         /\ maxMutationRecordsPerBatch' = mm
         /\ moConnected' = (IF formFound /\ hasMutationObserver THEN TRUE ELSE moConnected)
         /\ UNCHANGED <<formFound, hasBeacon, now, hist, stoppedAt, coalescerVars, hostVars>>

\* FXT.init(opts) with opts.batchSize = bs
init(bs) == initWith(bs, DefaultMaxMutationRecordsPerBatch)

stop ==
  /\ Budget(2)
  /\ \E bo \in BeaconOracles(isUnloading) :
       LET s0 == [FXTState EXCEPT !.trace = <<"clearTimeout">>]
           s1 == sendFieldMetricsSummary(s0, bo, now, "stop")
           s2 == enqueue(s1, bo, "session-end", now, [reason |-> "stop"])
           s3 == flush(s2, bo)
           cleared == clearFlushTimer(flushTimer, flushPending)
       IN /\ Commit(s3, "stop")
          /\ flushTimer' = cleared[1]
          /\ flushPending' = cleared[2]
  /\ isInitialized' = FALSE
  /\ moConnected' = FALSE
  /\ stoppedAt' = Some(initCount)
  /\ UNCHANGED <<initCount, formFound, hasBeacon, now, hist,
                 maxMutationRecordsPerBatch, coalescerVars, hostVars>>

\* FXT.stepTransition exists once attachFormListeners has run
stepTransition(from, to) ==
  /\ formFound /\ initCount >= 1
  /\ Budget(1)
  /\ \E bo \in BeaconOracles(isUnloading) :
       Commit(enqueue(FXTState, bo, "step-transition", now,
                      [fromStep |-> from, toStep |-> to]), "stepTransition")
  /\ UNCHANGED <<isInitialized, flushTimer, flushPending, initCount, formFound,
                 hasBeacon, now, hist, lifecycleVars>>

(***************************************************************************)
(* Lifecycle listeners and the heartbeat interval.  init installs them,    *)
(* nothing removes them.                                                   *)
(***************************************************************************)
UnloadListener(s, bo, t, reason) ==
  LET s0 == [s EXCEPT !.isUnloading = TRUE]
      s1 == sendFieldMetricsSummary(s0, bo, t, reason)
      s2 == enqueue(s1, bo, "session-end", t, [reason |-> reason])
  IN flush(s2, bo)

PageTeardown(reason, op) ==
  /\ initCount >= 1
  /\ Budget(2 * initCount)
  /\ \E bo \in BeaconOracles(TRUE) :
       Commit(Repeat(LAMBDA s : UnloadListener(s, bo, now, reason), initCount, FXTState), op)
  /\ UNCHANGED <<isInitialized, flushTimer, flushPending, initCount, formFound,
                 hasBeacon, now, hist, lifecycleVars>>

OnBeforeUnload == PageTeardown("unload", "beforeunload")

OnVisibilityHidden == PageTeardown("hidden", "visibilitychange")

\* a heartbeat that summarizes whether or not the Metric Store has a record
Heartbeat_AlwaysSummary ==
  /\ initCount >= 1
  /\ Budget(2)
  /\ \E bo \in BeaconOracles(isUnloading) :
       LET s1 == enqueue(FXTState, bo, "heartbeat", now, [tSinceStart |-> MathRoundDiv(now - startedAt, 1000)])
           s2 == sendFieldMetricsSummary(s1, bo, now, "periodic")
       IN Commit(s2, "heartbeat")
  /\ UNCHANGED <<isInitialized, flushTimer, flushPending, initCount, formFound,
                 hasBeacon, now, hist, lifecycleVars>>

Heartbeat ==
  /\ initCount >= 1
  /\ Budget(IF Len(fieldMetrics) > 0 THEN 2 ELSE 1)
  /\ \E bo \in BeaconOracles(isUnloading) :
       LET s1 == enqueue(FXTState, bo, "heartbeat", now, [tSinceStart |-> MathRoundDiv(now - startedAt, 1000)])
           s2 == IF Len(s1.fieldMetrics) > 0
                   THEN sendFieldMetricsSummary(s1, bo, now, "periodic")
                   ELSE s1
       IN Commit(s2, "heartbeat")
  /\ UNCHANGED <<isInitialized, flushTimer, flushPending, initCount, formFound,
                 hasBeacon, now, hist, lifecycleVars>>

(***************************************************************************)
(* Settlement of a batch request.  fetch is the wrapper wrapFetch          *)
(* installed (one layer for each init that had run when flush called it):  *)
(* each layer's callback runs before the callback flush attached.          *)
(***************************************************************************)
RemoveAt(seq, i) == SubSeq(seq, 1, i - 1) \o SubSeq(seq, i + 1, Len(seq))

NetworkErrorEvent(s, bo, t, subType) ==
  enqueue(s, bo, "error", t, [errorType |-> "network", subType |-> subType])

\* the batch put back behind the queue
Requeue_AtBack(returned, evs) == evs \o returned

\* the then callback putting the batch back as the catch callback does
Responded_Retries(returned, evs) == returned \o evs

\* the catch callback of flush: returned.concat(FXT._events)
Requeue(returned, evs) == returned \o evs

\* the then callback of flush: it notes the time and leaves the queue alone
Responded(returned, evs) == evs

FetchSettled(i, op) ==
  [FXTState EXCEPT !.inflight = RemoveAt(@, i), !.trace = <<op>>,
                   !.arg = Ids(inflight[i].body.events)]

\* the response has an ok status
FetchOk(i) ==
  /\ i \in 1..Len(inflight)
  /\ LET s0 == FetchSettled(i, "resolve")
     IN Commit([s0 EXCEPT !.events = Responded(inflight[i].body.events, @),
                          !.delivered = @ \cup Delivered(inflight[i].body, "ok")],
               "fetch-ok")
  /\ UNCHANGED <<isInitialized, flushTimer, flushPending, initCount, formFound,
                 hasBeacon, now, hist, lifecycleVars>>

\* the response has an error status: res.ok is false
FetchHttpError(i) ==
  /\ i \in 1..Len(inflight)
  /\ Budget(inflight[i].wraps)
  /\ \E bo \in BeaconOracles(isUnloading) :
       LET s0 == FetchSettled(i, "resolve")
           s1 == Repeat(LAMBDA s : NetworkErrorEvent(s, bo, now, "httpError"),
                        inflight[i].wraps, s0)
       IN Commit([s1 EXCEPT !.events = Responded(inflight[i].body.events, @),
                            !.delivered = @ \cup Delivered(inflight[i].body, "http-error")],
                 "fetch-http-error")
  /\ UNCHANGED <<isInitialized, flushTimer, flushPending, initCount, formFound,
                 hasBeacon, now, hist, lifecycleVars>>

\* the request could not complete: the promise rejects
FetchReject(i) ==
  /\ i \in 1..Len(inflight)
  /\ Budget(inflight[i].wraps)
  /\ \E bo \in BeaconOracles(isUnloading) :
       LET s0 == FetchSettled(i, "reject")
           s1 == Repeat(LAMBDA s : NetworkErrorEvent(s, bo, now, "networkFail"),
                        inflight[i].wraps, s0)
       IN Commit([s1 EXCEPT !.events = Requeue(inflight[i].body.events, @),
                            !.failures = Min(@ + 1, 2),
                            !.trace = Append(@, "requeue")],
                 "fetch-reject")
  /\ UNCHANGED <<isInitialized, flushTimer, flushPending, initCount, formFound,
                 hasBeacon, now, hist, lifecycleVars>>

(***************************************************************************)
(* Instrumentation of the form's fields.  An element el is what the        *)
(* handlers read of the notice's target: path (cssPath), tag, type, step   *)
(* (stepIndexForElement), summary (valueSummaryForElement: None, or        *)
(* Some([length, kind])) and validity ("none" when the element has no      *)
(* validity object, else "valid" or "invalid").  t is the clock reading.   *)
(***************************************************************************)
Element(path, summary, validity) ==
  [path |-> path, tag |-> "INPUT", type |-> "text", step |-> Null,
   summary |-> summary, validity |-> validity]

\* in place of a path: cssPath(el) throws (node.tagName is not a string, as
\* for a form that has a control named "tagName")
PathThrows == "throws"

\* the listener wireWindowErrors registered, run for an exception no handler
\* caught
WindowErrorListener(s, bo, t) ==
  enqueue(s, bo, "error", t,
          [errorType |-> "uncaught", message |-> "TypeError", filename |-> "fxt.js",
           lineno |-> 102])

\* an exception leaves a listener: the host reports it to the page by an
\* error event at window, which runs the listener of every init
Uncaught(s, bo, t) ==
  Repeat(LAMBDA q : WindowErrorListener(q, bo, t), s.wraps,
         [s EXCEPT !.trace = Append(@, "uncaught")])

\* the form listeners have no try/catch: an exception of cssPath leaves them
Escapes(s, bo, t) == Uncaught(s, bo, t)

\* the test `FXT._fieldFocusStartTime` of onBlur: null and 0 are both falsy
FocusStartIsTruthy(start) == start # None /\ start[1] # 0

\* onFocus without the count of the focus
onFocusListener_NoCount(s, bo, el, t) ==
  IF el.path = PathThrows THEN Escapes(s, bo, t) ELSE
  LET fm1 == initFieldMetrics(s.fieldMetrics, el.path)
      i == MetricsIndex(fm1, el.path)
      s1 == [s EXCEPT !.fieldMetrics = fm1,
                      !.currentFocusedField = Some(el.path),
                      !.fieldFocusStartTime = Some(t)]
      info == [formSelector |-> "form", field |-> el.path, tag |-> el.tag,
               fieldType |-> el.type, step |-> el.step, valueSummary |-> el.summary,
               focusCount |-> fm1[i].focusCount,
               previousValidationFailures |-> fm1[i].validationFailures,
               previousEditCount |-> fm1[i].editCount]
  IN enqueue(s1, bo, "focus", t, info)

onFocusListener(s, bo, el, t) ==
  IF el.path = PathThrows THEN Escapes(s, bo, t) ELSE
  LET fm0 == initFieldMetrics(s.fieldMetrics, el.path)
      i == MetricsIndex(fm0, el.path)
      fm1 == [fm0 EXCEPT ![i].focusCount = @ + 1]
      s1 == [s EXCEPT !.fieldMetrics = fm1,
                      !.currentFocusedField = Some(el.path),
                      !.fieldFocusStartTime = Some(t)]
      info == [formSelector |-> "form", field |-> el.path, tag |-> el.tag,
               fieldType |-> el.type, step |-> el.step, valueSummary |-> el.summary,
               focusCount |-> fm1[i].focusCount,
               previousValidationFailures |-> fm1[i].validationFailures,
               previousEditCount |-> fm1[i].editCount]
  IN enqueue(s1, bo, "focus", t, info)

\* onBlur crediting the time to the focused field, whichever field was left
onBlurListener_CreditsFocused(s, bo, el, t) ==
  IF el.path = PathThrows THEN Escapes(s, bo, t) ELSE
  LET counted == /\ s.currentFocusedField # None
                 /\ FocusStartIsTruthy(s.fieldFocusStartTime)
      timeSpent == IF counted THEN t - s.fieldFocusStartTime[1] ELSE 0
      fm1 == IF counted /\ getFieldMetrics(s.fieldMetrics, s.currentFocusedField[1]) # None
               THEN [s.fieldMetrics EXCEPT
                       ![MetricsIndex(s.fieldMetrics, s.currentFocusedField[1])].totalTimeSpent =
                          @ + timeSpent]
               ELSE s.fieldMetrics
      m1 == getFieldMetrics(fm1, el.path)
      s1 == [s EXCEPT !.fieldMetrics = fm1,
                      !.currentFocusedField = None,
                      !.fieldFocusStartTime = None]
      info == [field |-> el.path, tag |-> el.tag, fieldType |-> el.type,
               step |-> el.step, valueSummary |-> el.summary,
               timeSpentMs |-> timeSpent,
               totalTimeSpentMs |-> IF m1 # None THEN m1[1].totalTimeSpent ELSE 0,
               editCount |-> IF m1 # None THEN m1[1].editCount ELSE 0,
               validationFailures |-> IF m1 # None THEN m1[1].validationFailures ELSE 0,
               backspaceCount |-> IF m1 # None THEN m1[1].backspaceCount ELSE 0,
               pasteCount |-> IF m1 # None THEN m1[1].pasteCount ELSE 0]
  IN enqueue(s1, bo, "blur", t, info)

onBlurListener(s, bo, el, t) ==
  IF el.path = PathThrows THEN Escapes(s, bo, t) ELSE
  LET metrics == getFieldMetrics(s.fieldMetrics, el.path)
      counted == /\ s.currentFocusedField = Some(el.path)
                 /\ FocusStartIsTruthy(s.fieldFocusStartTime)
      timeSpent == IF counted THEN t - s.fieldFocusStartTime[1] ELSE 0
      fm1 == IF counted /\ metrics # None
               THEN [s.fieldMetrics EXCEPT
                       ![MetricsIndex(s.fieldMetrics, el.path)].totalTimeSpent = @ + timeSpent]
               ELSE s.fieldMetrics
      m1 == getFieldMetrics(fm1, el.path)
      s1 == [s EXCEPT !.fieldMetrics = fm1,
                      !.currentFocusedField = None,
                      !.fieldFocusStartTime = None]
      info == [field |-> el.path, tag |-> el.tag, fieldType |-> el.type,
               step |-> el.step, valueSummary |-> el.summary,
               timeSpentMs |-> timeSpent,
               totalTimeSpentMs |-> IF m1 # None THEN m1[1].totalTimeSpent ELSE 0,
               editCount |-> IF m1 # None THEN m1[1].editCount ELSE 0,
               validationFailures |-> IF m1 # None THEN m1[1].validationFailures ELSE 0,
               backspaceCount |-> IF m1 # None THEN m1[1].backspaceCount ELSE 0,
               pasteCount |-> IF m1 # None THEN m1[1].pasteCount ELSE 0]
  IN enqueue(s1, bo, "blur", t, info)

\* the validity object onChange copies into the record
ValidityInfo(validity) == [valid |-> validity = "valid"]

\* every empty value counted as a clear, whatever the value was before
WasCleared_AnyEmpty(lastValueLength, valueSummary) ==
  valueSummary # None /\ valueSummary[1].length = 0

\* the test of onChange for "the field was cleared"
WasCleared(lastValueLength, valueSummary) ==
  /\ lastValueLength > 0
  /\ valueSummary # None
  /\ valueSummary[1].length = 0

onChangeListener(s, bo, el, t) ==
  IF el.path = PathThrows THEN Escapes(s, bo, t) ELSE
  LET fm0 == initFieldMetrics(s.fieldMetrics, el.path)
      i == MetricsIndex(fm0, el.path)
      cleared == WasCleared(fm0[i].lastValueLength, el.summary)
      fm1 == [fm0 EXCEPT ![i].editCount = @ + 1,
                         ![i].clearCount = IF cleared THEN @ + 1 ELSE @,
                         ![i].lastValueLength =
                            IF el.summary # None THEN el.summary[1].length ELSE 0]
      base == [field |-> el.path, tag |-> el.tag, fieldType |-> el.type,
               step |-> el.step, valueSummary |-> el.summary,
               editCount |-> fm1[i].editCount, clearCount |-> fm1[i].clearCount]
      fm2 == IF el.validity = "invalid"
               THEN [fm1 EXCEPT ![i].validationFailures = @ + 1,
                                ![i].lastError = Some(ValidityInfo(el.validity))]
               ELSE fm1
      info == IF el.validity = "none"
                THEN base
                ELSE IF el.validity = "invalid"
                  THEN [validity |-> ValidityInfo(el.validity),
                        validationFailureCount |-> fm2[i].validationFailures] @@ base
                  ELSE [validity |-> ValidityInfo(el.validity)] @@ base
  IN enqueue([s EXCEPT !.fieldMetrics = fm2], bo, "change", t, info)

\* `{ ...el.validity }`: the properties of a ValidityState are accessors of
\* its prototype, so the copy has no property of its own
SpreadValidity(validity) == IF validity = "none" THEN Null ELSE "{}"


onInvalidListener(s, bo, el, t) ==
  IF el.path = PathThrows THEN Escapes(s, bo, t) ELSE
  LET fm0 == initFieldMetrics(s.fieldMetrics, el.path)
      i == MetricsIndex(fm0, el.path)
      fm1 == [fm0 EXCEPT ![i].validationFailures = @ + 1]
      info == [errorType |-> "validation", field |-> el.path, tag |-> el.tag,
               fieldType |-> el.type, step |-> el.step,
               validity |-> SpreadValidity(el.validity),
               validationFailureCount |-> fm1[i].validationFailures,
               editCount |-> fm1[i].editCount,
               timeSpentMs |-> fm1[i].totalTimeSpent,
               isRepeatedFailure |-> fm1[i].validationFailures > 1]
  IN enqueue([s EXCEPT !.fieldMetrics = fm1], bo, "error", t, info)

\* the keys a keydown notice reports
Keys == {"Backspace", "Delete", "a"}

\* onKeyDown: no record is enqueued
onKeyDownListener(s, bo, el, key, t) ==
  IF el.tag \notin {"INPUT", "TEXTAREA"}
    THEN s
    ELSE IF el.path = PathThrows THEN Escapes(s, bo, t)
    ELSE LET fm0 == initFieldMetrics(s.fieldMetrics, el.path)
             i == MetricsIndex(fm0, el.path)
         IN [s EXCEPT !.fieldMetrics =
               IF key \in {"Backspace", "Delete"}
                 THEN [fm0 EXCEPT ![i].backspaceCount = @ + 1]
                 ELSE fm0]

onPasteListener(s, bo, el, t) ==
  IF el.path = PathThrows THEN Escapes(s, bo, t) ELSE
  LET fm0 == initFieldMetrics(s.fieldMetrics, el.path)
      i == MetricsIndex(fm0, el.path)
      fm1 == [fm0 EXCEPT ![i].pasteCount = @ + 1]
  IN enqueue([s EXCEPT !.fieldMetrics = fm1], bo, "paste", t,
             [field |-> el.path, tag |-> el.tag, fieldType |-> el.type])

\* a notice runs the listener each init registered on the form
Notice(Listener(_, _), op, el) ==
  /\ formFound /\ initCount >= 1
  /\ Len(hist) < MaxNotices
  /\ \E bo \in BeaconOracles(isUnloading) :
       Commit(Repeat(LAMBDA s : Listener(s, bo), initCount, FXTState), op)
  /\ hist' = Append(hist, [op |-> op, field |-> el.path, t |-> now,
                           validity |-> el.validity, summary |-> el.summary])
  /\ UNCHANGED <<isInitialized, flushTimer, flushPending, initCount, formFound,
                 hasBeacon, now, lifecycleVars>>

onFocus(el) == Notice(LAMBDA s, bo : onFocusListener(s, bo, el, now), "focus", el)

onBlur(el) == Notice(LAMBDA s, bo : onBlurListener(s, bo, el, now), "blur", el)

onChange(el) == Notice(LAMBDA s, bo : onChangeListener(s, bo, el, now), "change", el)

onInvalid(el) == Notice(LAMBDA s, bo : onInvalidListener(s, bo, el, now), "invalid", el)

onKeyDown(el, key) == Notice(LAMBDA s, bo : onKeyDownListener(s, bo, el, key, now), "keydown", el)

onPaste(el) == Notice(LAMBDA s, bo : onPasteListener(s, bo, el, now), "paste", el)

\* the page clock moves on between two handlers (as long as a notice can
\* still read it)
Tick ==
  /\ Len(hist) < MaxNotices
  /\ \E t \in Instants : t > now /\ now' = t
  /\ UNCHANGED <<batchSize, sessionId, isInitialized, isUnloading, events, flushTimer,
                 flushPending, initCount, formFound, hasBeacon, fieldMetrics,
                 currentFocusedField, fieldFocusStartTime, inflight, delivered,
                 nextId, failures, hist, last, lifecycleVars>>

(***************************************************************************)
(* Structural-change coalescer.  The observer's callback buffers the       *)
(* notices of one delivery and arms the coalescing timer when none is      *)
(* noted in FXT._mutationTimer; the timer's callback drains the front of   *)
(* the buffer into one dom-mutation record.  n is not a property of the    *)
(* JavaScript object: it numbers the notices in arrival order.             *)
(***************************************************************************)
\* what the observer reports: element nodes added or removed, attributes set
MutationActions == {"added", "attr"}
\* the notices one delivery of the observer puts in the buffer (a delivery
\* of text nodes only puts none)
DeliverySizes == 0..2

ChangeNotice(n, action) ==
  IF action = "attr"
    THEN [n |-> n, action |-> action, selector |-> "form", attribute |-> "class"]
    ELSE [n |-> n, action |-> action, selector |-> "form > div", tag |-> "div"]

\* a timeout set on every delivery
armMutationTimer_Always(mt, mp) == <<"live", mp + 1>>

\* `if (!FXT._mutationTimer) FXT._mutationTimer = setTimeout(...)`:
\* <<FXT._mutationTimer, pending timeouts>> after it
armMutationTimer(mt, mp) == IF mt # Null THEN <<mt, mp>> ELSE <<"live", mp + 1>>

\* the callback of the MutationObserver for a delivery of k notices; a
\* delivery that arms the timer is taken while a record can still be created
\* for that timer
MutationCallback(k, action) ==
  /\ moConnected
  /\ mutationCount + k <= MaxMutations
  /\ mutationTimer = Null => Budget(1)
  /\ LET armed == armMutationTimer(mutationTimer, mutationPending)
     IN /\ mutationBuffer' = mutationBuffer \o
                                [j \in 1..k |-> ChangeNotice(mutationCount + j, action)]
        /\ mutationCount' = mutationCount + k
        /\ mutationTimer' = armed[1]
        /\ mutationPending' = armed[2]
        /\ last' = [op |-> "mutations",
                    trace |-> IF armed[2] > mutationPending THEN <<"setTimeout">> ELSE <<>>,
                    arg |-> <<>>]
  /\ UNCHANGED <<batchSize, sessionId, isInitialized, isUnloading, events, flushTimer,
                 flushPending, initCount, formFound, hasBeacon, fieldMetrics,
                 currentFocusedField, fieldFocusStartTime, now, inflight, delivered,
                 nextId, failures, hist, maxMutationRecordsPerBatch, moConnected,
                 stoppedAt, hostVars>>

\* the callback of the coalescing timer
MutationTimerFires ==
  /\ mutationPending > 0
  /\ Budget(1)
  /\ \E bo \in BeaconOracles(isUnloading) :
       LET batch == spliceRemoved(mutationBuffer, maxMutationRecordsPerBatch)
       IN Commit(enqueue(FXTState, bo, "dom-mutation", now, [changes |-> batch]),
                 "mutation-timer")
  /\ mutationBuffer' = spliceKept(mutationBuffer, maxMutationRecordsPerBatch)
  /\ mutationTimer' = Null
  /\ mutationPending' = mutationPending - 1
  /\ UNCHANGED <<isInitialized, flushTimer, flushPending, initCount, formFound,
                 hasBeacon, now, hist, maxMutationRecordsPerBatch, moConnected,
                 stoppedAt, mutationCount, hostVars>>

(***************************************************************************)
(* The queue and its transports in a session that has been started, driven *)
(* by the producers that do not touch the Metric Store.                    *)
(***************************************************************************)
Next ==
  \/ \E bs \in 1..MaxBatchSize : init(bs)
  \/ \E from \in StepArgs : stepTransition(from, "2")
  \/ Heartbeat
  \/ OnBeforeUnload
  \/ FlushTimerFires
  \/ \E i \in 1..Len(inflight) : FetchOk(i)
  \/ \E i \in 1..Len(inflight) : FetchHttpError(i)
  \/ \E i \in 1..Len(inflight) : FetchReject(i)

Spec == Init /\ [][Next]_vars

(***************************************************************************)
(* A page whose form is found, started with the default configuration.     *)
(* SpecFocus: the user moves between the fields.  SpecEdit: the user       *)
(* works in field A.                                                       *)
(***************************************************************************)
InitForm == Init /\ formFound /\ hasBeacon

TextInput(path) == Element(path, Some([length |-> 3, kind |-> "alpha"]), "none")

NextFocus ==
  \/ init(DefaultBatchSize)
  \/ Tick
  \/ \E f \in Fields : onFocus(TextInput(f))
  \/ \E f \in Fields : onBlur(TextInput(f))

SpecFocus == InitForm /\ [][NextFocus]_vars

NextEdit ==
  \/ init(DefaultBatchSize)
  \/ Tick
  \/ onFocus(TextInput("A"))
  \/ onBlur(TextInput("A"))
  \/ \E v \in {"valid", "invalid"} :
       onChange(Element("A", Some([length |-> 3, kind |-> "alpha"]), v))

SpecEdit == InitForm /\ [][NextEdit]_vars

(***************************************************************************)
(* SpecSummary: the started session at a later time, with a Metric Store   *)
(* drawn from the values around the five thresholds, and the handlers that *)
(* summarize it.  The stores drawn are stores notices can build (a clear   *)
(* needs two changes, time is spent only on a field that was focused);     *)
(* the notices that built them are not replayed.                           *)
(***************************************************************************)
Around(threshold) == {0, threshold, threshold + 1}

CanBuild(m) ==
  /\ 2 * m.clearCount <= m.editCount
  /\ m.totalTimeSpent > 0 => m.focusCount >= 1

DrawnMetrics(path) ==
  {m \in [field : {path},
          focusCount : Around(FocusCountThreshold),
          totalTimeSpent : Around(TimeSpentThreshold),
          editCount : Around(EditCountThreshold),
          validationFailures : Around(ValidationFailuresThreshold),
          lastValueLength : {0}, backspaceCount : {0}, pasteCount : {0},
          clearCount : Around(ClearCountThreshold),
          lastError : {None}] : CanBuild(m)}

\* field B: every counter at its threshold, or only validationFailures over
AtThresholds(path) ==
  [NewMetrics(path) EXCEPT !.focusCount = FocusCountThreshold,
                           !.totalTimeSpent = TimeSpentThreshold,
                           !.editCount = EditCountThreshold,
                           !.validationFailures = ValidationFailuresThreshold,
                           !.clearCount = ClearCountThreshold]

DrawnStores ==
  {<<a>> : a \in DrawnMetrics("A")}
  \cup {<<a, b>> : a \in DrawnMetrics("A"),
                   b \in {AtThresholds("B"),
                          [NewMetrics("B") EXCEPT !.validationFailures =
                                                    ValidationFailuresThreshold + 1]}}

\* the state init(bs) leaves, as the first handler after the script loaded
Started(bs) ==
  /\ batchSize = bs
  /\ sessionId = Some(1)
  /\ isInitialized = TRUE
  /\ isUnloading = FALSE
  /\ events = <<makeEvent(1, "session-start", 0, [url |-> "pathname"])>>
  /\ flushTimer = "live"
  /\ flushPending = 1
  /\ initCount = 1
  /\ inflight = <<>>
  /\ delivered = {}
  /\ nextId = 2
  /\ failures = 0
  /\ last = [op |-> "init", trace |-> <<"enqueue">>, arg |-> <<>>]
  /\ maxMutationRecordsPerBatch = DefaultMaxMutationRecordsPerBatch
  /\ moConnected = (formFound /\ hasMutationObserver)
  /\ mutationBuffer = <<>>
  /\ mutationTimer = Null
  /\ mutationPending = 0
  /\ mutationCount = 0
  /\ stoppedAt = None

InitSummary ==
  /\ formFound = TRUE
  /\ hasBeacon \in BOOLEAN
  /\ hasMutationObserver = TRUE
  /\ eventLimit = MaxEvents
  /\ selectorParses = TRUE
  /\ Started(DefaultBatchSize)
  /\ fieldMetrics \in DrawnStores
  /\ currentFocusedField \in {None, Some("A")}
  /\ currentFocusedField # None => fieldMetrics[1].focusCount >= 1
  /\ fieldFocusStartTime = IF currentFocusedField = None THEN None
                           ELSE Some(2 * TimeSpentThreshold)
  /\ now = 2 * (TimeSpentThreshold + 1)
  /\ hist = <<>>

NextSummary ==
  \/ Heartbeat
  \/ OnBeforeUnload
  \/ OnVisibilityHidden
  \/ stop

SpecSummary == InitSummary /\ [][NextSummary]_vars

(***************************************************************************)
(* SpecClear: the user changes the values of the fields, to a text, to the *)
(* empty text; a change notice can also come from an element that has no   *)
(* value (valueSummaryForElement gives null).  The page may stop the       *)
(* session and start it again.                                             *)
(***************************************************************************)
\* valueSummaryForElement of the targets of the change notices
ValueSummaries ==
  {None, Some([length |-> 0, kind |-> "empty"]), Some([length |-> 3, kind |-> "alpha"])}

NextClear ==
  \/ init(DefaultBatchSize)
  \/ stop
  \/ \E f \in Fields, v \in ValueSummaries : onChange(Element(f, v, "none"))

SpecClear == InitForm /\ [][NextClear]_vars

(***************************************************************************)
(* SpecLifecycle: the page calls init and stop in any order while the      *)
(* periodic flush and the heartbeat run and the user enters field A.       *)
(***************************************************************************)
\* the batchSize options of the page: a queue that fills, and the default
LifecycleBatchSizes == {2, DefaultBatchSize}

NextLifecycle ==
  \/ \E bs \in LifecycleBatchSizes : init(bs)
  \/ stop
  \/ FlushTimerFires
  \/ Heartbeat
  \/ onFocus(TextInput("A"))

SpecLifecycle == Init /\ [][NextLifecycle]_vars

(***************************************************************************)
(* SpecRestart: the page calls init and stop in any order while the host   *)
(* reports that the page is hidden or about to unload.                     *)
(***************************************************************************)
InitRestart ==
  /\ Loaded
  /\ formFound = TRUE
  /\ hasBeacon \in BOOLEAN
  /\ hasMutationObserver = TRUE
  /\ eventLimit = MaxRestartEvents
  /\ selectorParses = TRUE

NextRestart ==
  \/ init(DefaultBatchSize)
  \/ stop
  \/ OnVisibilityHidden
  \/ OnBeforeUnload

SpecRestart == InitRestart /\ [][NextRestart]_vars

(***************************************************************************)
(* SpecCoalesce: a page whose form is found, started with a small          *)
(* maxMutationRecordsPerBatch, whose form is then rewritten; the page may  *)
(* stop the session.  SpecDrain: the same page without stop, where the     *)
(* host runs a pending coalescing timer eventually.                        *)
(***************************************************************************)
MutationBatchSizes == 1..2

InitCoalesce ==
  /\ Loaded
  /\ formFound = TRUE
  /\ hasBeacon = TRUE
  /\ hasMutationObserver \in BOOLEAN
  /\ eventLimit = MaxEvents
  /\ selectorParses = TRUE

NextDrain ==
  \/ \E mm \in MutationBatchSizes : initWith(DefaultBatchSize, mm)
  \/ \E k \in DeliverySizes, a \in MutationActions : MutationCallback(k, a)
  \/ MutationTimerFires

NextCoalesce ==
  \/ NextDrain
  \/ stop

SpecCoalesce == InitCoalesce /\ [][NextCoalesce]_vars

SpecDrain == InitCoalesce /\ [][NextDrain]_vars /\ WF_vars(MutationTimerFires)

(***************************************************************************)
(* SpecMetrics: the started session at a later time.  The user moves       *)
(* between the fields and works in field A (a change to an invalid value,  *)
(* a change to the empty value, an invalid notice, a correction, a paste)  *)
(* while the clock runs, the heartbeat fires, the page is hidden and the   *)
(* page calls stop.                                                        *)
(***************************************************************************)
Validities == {"none", "valid", "invalid"}

EmptyValue == Some([length |-> 0, kind |-> "empty"])
AlphaValue == Some([length |-> 3, kind |-> "alpha"])

InitMetrics ==
  /\ formFound = TRUE
  /\ hasBeacon = FALSE
  /\ hasMutationObserver = TRUE
  /\ eventLimit = MaxMetricEvents
  /\ selectorParses = TRUE
  /\ Started(DefaultBatchSize)
  /\ fieldMetrics = <<>>
  /\ currentFocusedField = None
  /\ fieldFocusStartTime = None
  /\ now = 100
  /\ hist = <<>>

MetricNotice ==
  \/ \E f \in Fields : onFocus(TextInput(f))
  \/ \E f \in Fields : onBlur(TextInput(f))
  \/ onChange(Element("A", AlphaValue, "invalid"))
  \/ onChange(Element("A", EmptyValue, "none"))
  \/ onInvalid(Element("A", AlphaValue, "invalid"))
  \/ onKeyDown(TextInput("A"), "Backspace")
  \/ onPaste(TextInput("A"))

NextMetrics ==
  \/ stop
  \/ Tick /\ now' = 200
  \/ Len(hist) < MaxMetricNotices /\ MetricNotice
  \/ Heartbeat
  \/ OnVisibilityHidden

SpecMetrics == InitMetrics /\ [][NextMetrics]_vars

(***************************************************************************)
(* SpecValidation: the page calls init and stop in any order while the     *)
(* user edits field A: changes with and without validity information,      *)
(* invalid notices, and the notices that do not validate.                  *)
(***************************************************************************)
ValidationNotice ==
  \/ \E v \in Validities : onChange(Element("A", AlphaValue, v))
  \/ \E v \in {"none", "invalid"} : onInvalid(Element("A", AlphaValue, v))
  \/ onFocus(TextInput("A"))
  \/ onBlur(TextInput("A"))
  \/ \E key \in Keys : onKeyDown(TextInput("A"), key)
  \/ onPaste(TextInput("A"))

NextValidation ==
  \/ init(DefaultBatchSize)
  \/ stop
  \/ Len(hist) < MaxMetricNotices /\ ValidationNotice

SpecValidation == InitForm /\ [][NextValidation]_vars

(***************************************************************************)
(* SpecHost: the page calls init and stop in any order, on every host (the *)
(* form is found or not, MutationObserver and sendBeacon exist or not),    *)
(* with a formSelector that parses or not and a batchSize of 1 (every      *)
(* enqueue flushes) or the default, while batch requests are rejected.     *)
(***************************************************************************)
HostBatchSizes == {1, DefaultBatchSize}

InitHost ==
  /\ Loaded
  /\ formFound \in BOOLEAN
  /\ hasBeacon \in BOOLEAN
  /\ hasMutationObserver \in BOOLEAN
  /\ selectorParses \in BOOLEAN
  /\ eventLimit = MaxEvents

NextHost ==
  \/ \E bs \in HostBatchSizes : init(bs)
  \/ stop
  \/ \E i \in 1..Len(inflight) : FetchReject(i)

SpecHost == InitHost /\ [][NextHost]_vars

(***************************************************************************)
(* SpecFaults: a started session on a form in which the path of field A    *)
(* can be derived and the path of another control cannot.                  *)
(***************************************************************************)
FaultyInput == Element(PathThrows, AlphaValue, "invalid")

FaultElements == {TextInput("A"), FaultyInput}

NextFaults ==
  \/ init(DefaultBatchSize)
  \/ Len(hist) < MaxMetricNotices /\ \E el \in FaultElements : onFocus(el)
  \/ Len(hist) < MaxMetricNotices /\ \E el \in FaultElements : onBlur(el)
  \/ Len(hist) < MaxMetricNotices /\ \E el \in FaultElements : onChange(el)
  \/ Len(hist) < MaxMetricNotices /\ \E el \in FaultElements : onInvalid(el)
  \/ Len(hist) < MaxMetricNotices /\ \E el \in FaultElements : onKeyDown(el, "Backspace")
  \/ Len(hist) < MaxMetricNotices /\ \E el \in FaultElements : onPaste(el)
  \/ FlushTimerFires

SpecFaults == InitForm /\ [][NextFaults]_vars

(***************************************************************************)
(* Field values.  A value is a sequence of characters, and                 *)
(* valueSummaryForElement reads of it the length and which of the three    *)
(* character classes occur in it.                                          *)
(***************************************************************************)
\* /[0-9]/, /[A-Za-z]/ and /[^A-Za-z0-9\s]/; a space is in none of them
Digits == {"1", "2"}
Letters == {"a", "b"}
Symbols == {"#"}

CharacterKind(value) ==
  LET hasDigits == \E i \in 1..Len(value) : value[i] \in Digits
      hasLetters == \E i \in 1..Len(value) : value[i] \in Letters
      hasSymbols == \E i \in 1..Len(value) : value[i] \in Symbols
  IN IF Len(value) = 0 THEN "empty"
     ELSE IF hasDigits /\ ~hasLetters /\ ~hasSymbols THEN "numeric"
     ELSE IF ~hasDigits /\ hasLetters /\ ~hasSymbols THEN "alpha"
     ELSE IF hasDigits /\ hasLetters THEN "alphanum"
     ELSE "other"

\* a summary that keeps the first character of the value
valueSummaryForElement_FirstCharacter(tag, value) ==
  IF tag \in {"INPUT", "TEXTAREA", "SELECT"}
    THEN Some([length |-> Len(value),
               kind |-> IF Len(value) = 0 THEN "empty" ELSE value[1]])
    ELSE None

\* valueSummaryForElement of an element with tagName tag and value value
valueSummaryForElement(tag, value) ==
  IF tag \in {"INPUT", "TEXTAREA", "SELECT"}
    THEN Some([length |-> Len(value), kind |-> CharacterKind(value)])
    ELSE None

\* what the handlers read of a target with the value value
FormElement(path, tag, value, validity) ==
  [path |-> path, tag |-> tag, type |-> "text", step |-> Null,
   summary |-> valueSummaryForElement(tag, value), validity |-> validity]

\* the texts the user types
RawValues ==
  {<<>>, <<"a", "b">>, <<"b", "a">>, <<"a", " ">>, <<"1", "2">>, <<"2", "1">>,
   <<"a", "1">>, <<"#", "1">>}

(***************************************************************************)
(* SpecPrivacy: a session started with batchSize 2, so that every second   *)
(* record sends a batch, in which the user enters and leaves field A and   *)
(* types the texts.                                                        *)
(***************************************************************************)
InitPrivacy ==
  /\ formFound = TRUE
  /\ hasBeacon = TRUE
  /\ hasMutationObserver = TRUE
  /\ eventLimit = MaxEvents
  /\ selectorParses = TRUE
  /\ Started(2)
  /\ fieldMetrics = <<>>
  /\ currentFocusedField = None
  /\ fieldFocusStartTime = None
  /\ now = 100
  /\ hist = <<>>

NextPrivacy ==
  \/ Len(hist) < MaxMetricNotices /\
       \E v \in RawValues : onFocus(FormElement("A", "INPUT", v, "none"))
  \/ Len(hist) < MaxMetricNotices /\
       \E v \in RawValues : onBlur(FormElement("A", "INPUT", v, "none"))
  \/ Len(hist) < MaxMetricNotices /\
       \E v \in RawValues, vd \in {"none", "invalid"} :
         onChange(FormElement("A", "INPUT", v, vd))

SpecPrivacy == InitPrivacy /\ [][NextPrivacy]_vars

(***************************************************************************)
(* SpecStop: a page that starts the session with a small batchSize, calls  *)
(* stepTransition and stops the session, while the collector answers the   *)
(* batch requests or cannot be reached and the periodic flush runs.        *)
(***************************************************************************)
StopBatchSizes == 1..2

InitStop ==
  /\ Loaded
  /\ formFound = TRUE
  /\ hasBeacon = TRUE
  /\ hasMutationObserver = TRUE
  /\ eventLimit = MaxStopEvents
  /\ selectorParses = TRUE

NextStop ==
  \/ \E bs \in StopBatchSizes : init(bs)
  \/ stop
  \/ stepTransition(Undefined, "2")
  \/ FlushTimerFires
  \/ \E i \in 1..Len(inflight) : FetchOk(i)
  \/ \E i \in 1..Len(inflight) : FetchReject(i)

SpecStop == InitStop /\ [][NextStop]_vars

\* the same page, where the host runs a pending periodic flush eventually
SpecPeriodic == InitStop /\ [][NextStop]_vars /\ WF_vars(FlushTimerFires)

(***************************************************************************)
(* Where the records are.                                                  *)
(***************************************************************************)
Range(seq) == {seq[i] : i \in 1..Len(seq)}
QueueIds(evs) == Range(Ids(evs))
InflightIds(reqs) == UNION {QueueIds(reqs[i].body.events) : i \in 1..Len(reqs)}
Count(seq, x) == Cardinality({i \in 1..Len(seq) : seq[i] = x})
Chronological(evs) == \A i, j \in 1..Len(evs) : i < j => evs[i].id < evs[j].id

\* the number of places the record id is in
Places(id) ==
  Count(Ids(events), id)
  + Cardinality({i \in 1..Len(inflight) : id \in QueueIds(inflight[i].body.events)})
  + Cardinality({d \in delivered : d.id = id})

\* the handlers that are one call of enqueue and nothing else
SingleEnqueueOps == {"init", "stepTransition", "heartbeat"}

(***************************************************************************)
(* C1.  When the request carrying a batch rejects, the records of the      *)
(* batch are back at the front of the queue, in the order they had in the  *)
(* batch, ahead of every other record of the queue.                        *)
(***************************************************************************)
C1_RequeueAtFront ==
  [][last'.op = "fetch-reject" =>
       \E i \in 1..Len(inflight) :
         LET batch == inflight[i].body.events
         IN /\ Ids(batch) = last'.arg
            /\ Len(events') >= Len(batch)
            /\ SubSeq(events', 1, Len(batch)) = batch
            /\ \A j \in (Len(batch) + 1)..Len(events') :
                 /\ events'[j].id \notin QueueIds(batch)
                 /\ events'[j] \in Range(events) \/ events'[j].id >= nextId]_vars

\* a batch of two records was rejected and sits ahead of a later record
C1_Witness ==
  /\ last.op = "fetch-reject"
  /\ Len(last.arg) >= 2
  /\ Len(events) > Len(last.arg)
  /\ Ids(SubSeq(events, 1, Len(last.arg))) = last.arg

(***************************************************************************)
(* C2.  As claimed: in every reachable state the queue holds its records   *)
(* in the order in which they were first enqueued.                         *)
(***************************************************************************)
C2_AlwaysChronological == Chronological(events)

\* C2 as amended: the queue is in enqueue order in every reachable state in
\* which at most one batch request has been rejected so far.
C2_ChronologicalUpToOneFailure == failures <= 1 => Chronological(events)

\* one batch was rejected while another was in flight, and records enqueued
\* later sit behind it
C2_Witness ==
  /\ failures = 1
  /\ last.op = "fetch-reject"
  /\ Len(inflight) >= 1
  /\ Len(events) >= 2

(***************************************************************************)
(* C3.  Every record that was enqueued is in exactly one place: the queue, *)
(* one in-flight batch, or a batch whose delivery has ended.               *)
(***************************************************************************)
C3_ExactlyOnePlace ==
  /\ \A id \in 1..(nextId - 1) : Places(id) = 1
  /\ QueueIds(events) \cup InflightIds(inflight) \cup {d.id : d \in delivered}
       \subseteq 1..(nextId - 1)

\* records in all three places after a batch was reinserted
C3_Witness ==
  /\ failures >= 1
  /\ events # <<>>
  /\ inflight # <<>>
  /\ delivered # {}

(***************************************************************************)
(* C4.  enqueue appends at the back and calls flush exactly when the queue *)
(* then holds at least batchSize records; the enqueue that makes the       *)
(* length exactly batchSize makes one flush, which empties the queue.      *)
(***************************************************************************)
C4_EnqueueFlushesAtBatchSize ==
  [][last'.op \in SingleEnqueueOps /\ Count(last'.trace, "enqueue") = 1 =>
       LET flushes == Count(last'.trace, "flush")
           after == Len(events) + 1
           sent == IF Len(inflight') > Len(inflight)
                     THEN QueueIds(inflight'[Len(inflight')].body.events)
                     ELSE {d.id : d \in delivered' \ delivered}
       IN /\ last'.trace[1] = "enqueue"
          /\ nextId' = nextId + 1
          /\ flushes = (IF after >= batchSize' THEN 1 ELSE 0)
          /\ flushes = 0 =>
               /\ Ids(events') = Append(Ids(events), nextId)
               /\ SubSeq(events', 1, Len(events)) = events
               /\ inflight' = inflight /\ delivered' = delivered
          /\ flushes = 1 =>
               /\ \E k \in 1..after :
                    /\ sent = Range(SubSeq(Append(Ids(events), nextId), 1, k))
                    /\ Ids(events') = SubSeq(Append(Ids(events), nextId), k + 1, after)
          /\ after = batchSize' => flushes = 1 /\ events' = <<>>]_vars

\* the fourth enqueue since the queue was empty, with batchSize 4, flushed
\* the four records in one batch
C4_Witness ==
  /\ last.op = "heartbeat"
  /\ last.trace = <<"enqueue", "flush", "fetch">>
  /\ batchSize = 4
  /\ events = <<>>
  /\ Len(inflight) = 1
  /\ Ids(inflight[1].body.events) = <<1, 2, 3, 4>>

(***************************************************************************)
(* C5.  flush on an empty queue changes nothing; on a queue of n records   *)
(* it makes one batch of the first min(batchSize, n) records in queue      *)
(* order and leaves the others in the queue in their order.                *)
(***************************************************************************)
C5_FlushTakesFront ==
  [][last'.op = "flush-timer" =>
       IF events = <<>>
         THEN /\ events' = events /\ inflight' = inflight /\ delivered' = delivered
              /\ last'.trace = <<"flush-empty">>
         ELSE LET n == Len(events)
                  k == Min(batchSize, n)
                  front == JsonEvents(SubSeq(events, 1, k))
              IN /\ 1 <= k /\ k <= batchSize
                 /\ events' = SubSeq(events, k + 1, n)
                 /\ Len(events') = n - k
                 /\ Count(last'.trace, "flush") = 1
                 /\ \/ /\ inflight' = Append(inflight, [body |-> [sessionId |-> sessionId,
                                                                   startedAt |-> startedAt,
                                                                   events |-> front],
                                                        wraps |-> initCount])
                       /\ delivered' = delivered
                    \/ /\ inflight' = inflight
                       /\ delivered' = delivered \cup
                            {[id |-> front[i].id, via |-> "beacon"] : i \in 1..k}]_vars

\* the periodic flush took batchSize records from a longer queue
C5_Witness ==
  /\ last.op = "flush-timer"
  /\ Count(last.trace, "flush") = 1
  /\ events # <<>>
  /\ batchSize >= 2
  /\ \E i \in 1..Len(inflight) : Len(inflight[i].body.events) = batchSize

(***************************************************************************)
(* C6.  A batch answered with an error status is not reinserted and is     *)
(* never sent again; a record comes back from a request to the queue only  *)
(* when that request rejects.                                              *)
(***************************************************************************)
C6_HttpErrorNotRetried ==
  [][/\ \A id \in InflightIds(inflight) :
          /\ id \in QueueIds(events') =>
               last'.op = "fetch-reject" /\ id \in Range(last'.arg)
          /\ last'.op = "fetch-http-error" /\ id \in Range(last'.arg) =>
               /\ id \notin QueueIds(events') \cup InflightIds(inflight')
               /\ [id |-> id, via |-> "http-error"] \in delivered'
     /\ \A d \in delivered :
          d.via = "http-error" =>
            d.id \notin QueueIds(events') \cup InflightIds(inflight')]_vars

\* a batch was answered with an error status, and later handlers ran
C6_Witness ==
  /\ \E d \in delivered : d.via = "http-error"
  /\ last.op # "fetch-http-error"
  /\ events # <<>>
  /\ inflight # <<>>

(***************************************************************************)
(* C7.  Every batch flush builds goes to exactly one transport: to the     *)
(* unload-safe primitive when the unloading flag is set and the primitive  *)
(* exists and accepts it, and then no request is made for it and it never  *)
(* comes back; otherwise to one network request.                           *)
(***************************************************************************)
C7_OneTransportPerBatch ==
  [][LET tr == last'.trace
         queued == Count(tr, "beacon-queued")
         declined == Count(tr, "beacon-refused") + Count(tr, "beacon-throws")
         fetches == Count(tr, "fetch")
         settled == Count(tr, "resolve") + Count(tr, "reject")
         accepted == {d \in delivered' \ delivered : d.via = "beacon"}
     IN /\ Count(tr, "flush") = queued + fetches
        /\ hasBeacon /\ isUnloading' => fetches = declined
        /\ ~(hasBeacon /\ isUnloading') => queued = 0 /\ declined = 0
        /\ Len(inflight') = Len(inflight) - settled + fetches
        /\ queued = 0 <=> accepted = {}
        /\ \A d \in accepted :
             d.id \notin QueueIds(events') \cup InflightIds(inflight')
        /\ \A d \in delivered :
             d.via = "beacon" =>
               /\ d.id \notin QueueIds(events') \cup InflightIds(inflight')
               /\ \A e \in delivered' : e.id = d.id => e = d]_vars

\* one teardown handler in which the primitive accepted one batch and threw
\* for the next, which went out by a network request
C7_Witness ==
  /\ last.op = "beforeunload"
  /\ Count(last.trace, "beacon-queued") = 1
  /\ Count(last.trace, "beacon-throws") = 1
  /\ Count(last.trace, "fetch") = 1
  /\ \E d \in delivered : d.via = "beacon"

\* the records in the queue and in the pending requests
PendingRecords == Range(events) \cup UNION {Range(inflight[i].body.events) : i \in 1..Len(inflight)}

StoreFields == {fieldMetrics[i].field : i \in 1..Len(fieldMetrics)}
StoredMetrics(path) == fieldMetrics[MetricsIndex(fieldMetrics, path)]

IsPairs(h, f) ==
  /\ Len(h) > 0
  /\ Len(h) % 2 = 0
  /\ \A i \in 1..Len(h) :
       /\ h[i].field = f
       /\ h[i].op = (IF i % 2 = 1 THEN "focus" ELSE "blur")

SumPairs(h) ==
  LET sum[k \in 0..(Len(h) \div 2)] ==
        IF k = 0 THEN 0 ELSE sum[k - 1] + h[2 * k].t - h[2 * k - 1].t
  IN sum[Len(h) \div 2]

C9_TotalTimeIsSumOfPairs ==
  \A f \in Fields :
    IsPairs(hist, f) => StoredMetrics(f).totalTimeSpent = SumPairs(hist)

(***************************************************************************)
(* C10.  Focus of A at 0, changes of A at 100, 200 and 300 of which the    *)
(* last is invalid, blur of A at 500: the blur record has editCount 3,     *)
(* validationFailures 1 and timeSpentMs 500.                               *)
(***************************************************************************)
NoticeOf(op, el, t) ==
  [op |-> op, field |-> el.path, t |-> t, validity |-> el.validity, summary |-> el.summary]

ScenarioC10 ==
  LET changed(v) == Element("A", Some([length |-> 3, kind |-> "alpha"]), v)
  IN <<NoticeOf("focus", TextInput("A"), 0),
       NoticeOf("change", changed("valid"), 100),
       NoticeOf("change", changed("valid"), 200),
       NoticeOf("change", changed("invalid"), 300),
       NoticeOf("blur", TextInput("A"), 500)>>

C10_ScenarioBlurRecord ==
  hist = ScenarioC10 =>
    \E r \in PendingRecords :
      /\ r.id = nextId - 1
      /\ r.type = "blur"
      /\ r.data.editCount = 3
      /\ r.data.validationFailures = 1
      /\ r.data.timeSpentMs = 500

(***************************************************************************)
(* C11.  A change notice on a field adds 1 to the field's clearCount when  *)
(* the field's previous value-length sample was above 0 and the new sample *)
(* is 0, and leaves every clearCount as it was otherwise: a zero-length    *)
(* sample after a zero-length sample adds nothing.  The previous sample is *)
(* the one of the field's latest earlier change notice (0 when there was   *)
(* none, or when its target had no value).                                 *)
(***************************************************************************)
ChangesOf(h, f) == {i \in 1..Len(h) : h[i].op = "change" /\ h[i].field = f}

SampleOf(notice) == IF notice.summary = None THEN 0 ELSE notice.summary[1].length

PrevSample(h, f) ==
  IF ChangesOf(h, f) = {} THEN 0
  ELSE SampleOf(h[CHOOSE i \in ChangesOf(h, f) : \A j \in ChangesOf(h, f) : j <= i])

ClearCountOf(fm, f) == IF HasMetrics(fm, f) THEN fm[MetricsIndex(fm, f)].clearCount ELSE 0

C11_ClearDetection ==
  [][Len(hist') = Len(hist) + 1 /\ hist'[Len(hist')].op = "change" =>
       LET notice == hist'[Len(hist')]
           cleared == /\ PrevSample(hist, notice.field) > 0
                      /\ notice.summary # None
                      /\ SampleOf(notice) = 0
       IN \A f \in Fields :
            ClearCountOf(fieldMetrics', f) =
              ClearCountOf(fieldMetrics, f)
                + (IF f = notice.field /\ cleared THEN 1 ELSE 0)]_vars

\* field A went from 3 characters to none and was changed to none again:
\* one clear
C11_Witness ==
  /\ Len(hist) >= 3
  /\ \A i \in 1..3 : hist[i].op = "change" /\ hist[i].field = "A"
  /\ <<SampleOf(hist[1]), SampleOf(hist[2]), SampleOf(hist[3])>> = <<3, 0, 0>>
  /\ hist[2].summary # None /\ hist[3].summary # None
  /\ Len(hist) = 3
  /\ ClearCountOf(fieldMetrics, "A") = 1

\* stop has been called on a session that had been started
StoppedSession == stoppedAt # None /\ stoppedAt[1] >= 1

(***************************************************************************)
(* C12.  Once stop has been called on a started session the session stays  *)
(* stopped: no later call of init makes it active again, draws another     *)
(* session identifier or installs the listeners, wrappers and timers once  *)
(* more.                                                                   *)
(***************************************************************************)
C12_StoppedIsTerminal ==
  StoppedSession =>
    /\ ~isInitialized
    /\ sessionId = Some(stoppedAt[1])
    /\ initCount = stoppedAt[1]

(***************************************************************************)
(* C13.  A call of init while the session is active only returns: the      *)
(* session identifier, the configuration, the queue, the Metric Store and  *)
(* the outstanding timers are as before, and no record is created.         *)
(***************************************************************************)
C13_StartWhileActiveIsNoOp ==
  [][isInitialized /\ last'.op = "init" =>
       /\ last'.trace = <<"return">>
       /\ UNCHANGED <<sessionId, batchSize, maxMutationRecordsPerBatch, isInitialized,
                      isUnloading, events, inflight, delivered, nextId, initCount,
                      fieldMetrics, currentFocusedField, fieldFocusStartTime,
                      flushTimer, flushPending, mutationTimer, mutationPending,
                      moConnected>>]_vars

\* init returned at once in a session with a queued record, an entered field
\* and the periodic flush armed
C13_Witness ==
  /\ last = [op |-> "init", trace |-> <<"return">>, arg |-> <<>>]
  /\ isInitialized
  /\ events # <<>>
  /\ fieldMetrics # <<>>
  /\ flushPending = 1
  /\ batchSize = 2

\* the calls of enqueue and flush in a handler's trace, in order
QueueCalls(trace) ==
  SelectSeq(trace, LAMBDA c : c \in {"clearTimeout", "enqueue", "flush", "flush-empty"})

(***************************************************************************)
(* C14.  stop cancels the periodic flush timer, then enqueues a            *)
(* field-analytics record with reason "stop", then a session-end record    *)
(* with reason "stop", then flushes; once stop has been called on a        *)
(* started session no periodic flush timer is outstanding and the periodic *)
(* flush does not run again.                                               *)
(***************************************************************************)
C14_StopSequence ==
  [][/\ last'.op = "stop" =>
          LET calls == QueueCalls(last'.trace)
          IN /\ flushPending' = 0
             /\ calls[1] = "clearTimeout"
             /\ SelectSeq(calls, LAMBDA c : c \in {"clearTimeout", "enqueue"})
                  = <<"clearTimeout", "enqueue", "enqueue">>
             /\ calls[Len(calls)] \in {"flush", "flush-empty"}
             /\ calls[Len(calls) - 1] # "enqueue" => calls[Len(calls) - 2] = "enqueue"
             /\ nextId' = nextId + 2
             /\ \E r \in PendingRecords' :
                  r.id = nextId /\ r.type = "field-analytics" /\ r.data.reason = "stop"
             /\ \E r \in PendingRecords' :
                  r.id = nextId + 1 /\ r.type = "session-end" /\ r.data = [reason |-> "stop"]
     /\ StoppedSession => flushPending' = 0 /\ last'.op # "flush-timer"]_vars

\* stop ended a started session whose periodic flush was armed, and sent the
\* two records in the final flush
C14_Witness ==
  /\ last.op = "stop"
  /\ last.trace = <<"clearTimeout", "enqueue", "enqueue", "flush", "fetch">>
  /\ stoppedAt = Some(1)
  /\ flushTimer = "stale"
  /\ flushPending = 0

(***************************************************************************)
(* C15.  stop cancels a pending coalescing timer: while the session is     *)
(* stopped no coalescing timer is outstanding, so none fires and no        *)
(* dom-mutation record is enqueued after stop.                             *)
(***************************************************************************)
C15_StopCancelsCoalescingTimer ==
  stoppedAt # None /\ ~isInitialized => mutationPending = 0

\* the reason a lifecycle listener reports
TeardownReason(op) == IF op = "visibilitychange" THEN "hidden" ELSE "unload"

(***************************************************************************)
(* C16.  A page-hidden or unload notice in an active session sets the      *)
(* unloading flag, enqueues one field-analytics record with the reason     *)
(* ("hidden" or "unload"), then one session-end record with that reason,   *)
(* then flushes; the session stays active and the periodic flush timer is  *)
(* as it was, so handling the notice again gives the same emissions.       *)
(***************************************************************************)
C16_TeardownSequence ==
  [][isInitialized /\ last'.op \in {"visibilitychange", "beforeunload"} =>
       LET calls == QueueCalls(last'.trace)
           reason == TeardownReason(last'.op)
       IN /\ isUnloading'
          /\ SelectSeq(calls, LAMBDA c : c = "enqueue") = <<"enqueue", "enqueue">>
          /\ calls[1] = "enqueue"
          /\ calls[Len(calls)] \in {"flush", "flush-empty"}
          /\ calls[Len(calls) - 1] # "enqueue" => calls[Len(calls) - 2] = "enqueue"
          /\ nextId' = nextId + 2
          /\ \A r \in PendingRecords' :
               /\ r.id = nextId => r.type = "field-analytics" /\ r.data.reason = reason
               /\ r.id = nextId + 1 => r.type = "session-end" /\ r.data = [reason |-> reason]
          /\ \A id \in {nextId, nextId + 1} :
               \/ \E r \in PendingRecords' : r.id = id
               \/ [id |-> id, via |-> "beacon"] \in delivered'
          /\ UNCHANGED <<isInitialized, sessionId, flushTimer, flushPending, initCount,
                         metricVars>>]_vars

(***************************************************************************)
(* C17.  At most one coalescing timer is outstanding.  When it fires it    *)
(* moves the first min(maxMutationRecordsPerBatch, buffer length) notices, *)
(* in arrival order, into exactly one dom-mutation record, leaves the rest *)
(* of the buffer as it was and clears the timer.  A delivery of notices    *)
(* while a timer is outstanding sets no second timer and leaves the first  *)
(* alone; the first delivery after a drain sets a new one.                 *)
(***************************************************************************)
C17_OneCoalescingTimer ==
  [][/\ mutationPending' <= 1
     /\ mutationPending' = 1 <=> mutationTimer' = "live"
     /\ last'.op = "mutation-timer" =>
          LET k == Min(maxMutationRecordsPerBatch, Len(mutationBuffer))
          IN /\ mutationPending = 1
             /\ nextId' = nextId + 1
             /\ \E r \in PendingRecords' :
                  /\ r.id = nextId
                  /\ r.type = "dom-mutation"
                  /\ r.data = [changes |-> SubSeq(mutationBuffer, 1, k)]
             /\ mutationBuffer' = SubSeq(mutationBuffer, k + 1, Len(mutationBuffer))
             /\ mutationTimer' = Null
             /\ mutationPending' = 0
     /\ last'.op = "mutations" =>
          /\ nextId' = nextId
          /\ SubSeq(mutationBuffer', 1, Len(mutationBuffer)) = mutationBuffer
          /\ mutationPending' = 1
          /\ mutationTimer' = "live"
          /\ last'.trace = (IF mutationPending = 1 THEN <<>> ELSE <<"setTimeout">>)]_vars

\* a buffer of three notices was drained with maxMutationRecordsPerBatch 2:
\* two notices are in the record, the third is still buffered
C17_Witness ==
  /\ last.op = "mutation-timer"
  /\ maxMutationRecordsPerBatch = 2
  /\ Len(mutationBuffer) = 1
  /\ mutationBuffer[1].n = 3
  /\ mutationTimer = Null
  /\ \E r \in PendingRecords :
       r.type = "dom-mutation" /\ Len(r.data.changes) = 2 /\ r.data.changes[1].n = 1

\* the notice numbered n is in the coalescing buffer
InBuffer(n) == \E i \in 1..Len(mutationBuffer) : mutationBuffer[i].n = n

\* the notice numbered n is in a dom-mutation record
Emitted(n) ==
  \E r \in PendingRecords :
    /\ r.type = "dom-mutation"
    /\ \E i \in 1..Len(r.data.changes) : r.data.changes[i].n = n

(***************************************************************************)
(* C18.  Every notice put in the coalescing buffer of an active session is *)
(* eventually emitted in a dom-mutation record, when the host runs every   *)
(* pending coalescing timer, also when no further notice arrives.          *)
(***************************************************************************)
C18_BacklogIsEmitted ==
  \A n \in 1..MaxMutations : InBuffer(n) ~> Emitted(n)

(***************************************************************************)
(* C19.  At most one periodic flush timer is outstanding, whatever the     *)
(* order of init, stop, enqueue and timer firings; a firing of the timer   *)
(* calls flush once and then sets exactly one new timer.                   *)
(***************************************************************************)
C19_OnePeriodicTimer ==
  [][/\ flushPending' <= 1
     /\ flushPending' = 1 <=> flushTimer' = "live"
     /\ last'.op = "flush-timer" =>
          /\ flushPending = 1
          /\ Count(last'.trace, "flush") + Count(last'.trace, "flush-empty") = 1
          /\ Count(last'.trace, "enqueue") = 0
          /\ flushPending' = 1
          /\ flushTimer' = "live"]_vars

\* the timer fired on a queue of two records, sent them and was set again
C19_Witness ==
  /\ last = [op |-> "flush-timer", trace |-> <<"flush", "fetch">>, arg |-> <<>>]
  /\ flushPending = 1
  /\ flushTimer = "live"
  /\ \E i \in 1..Len(inflight) : Len(inflight[i].body.events) = 2

(***************************************************************************)
(* C20.  stop in a session in which no field was ever interacted with      *)
(* still enqueues a field-analytics record: totalFieldsInteracted 0,       *)
(* painPointCount 0, no pain points, dropOffField null.                    *)
(***************************************************************************)
C20_StopWithoutInteractions ==
  last.op = "stop" /\ hist = <<>> =>
    \E r \in PendingRecords :
      /\ r.id = nextId - 2
      /\ r.type = "field-analytics"
      /\ r.data = [reason |-> "stop", dropOffField |-> None,
                   totalFieldsInteracted |-> 0, painPoints |-> <<>>,
                   painPointCount |-> 0, allFieldMetrics |-> <<>>]

\* stop ended a started session on a page whose form no one touched
C20_Witness ==
  /\ last.op = "stop"
  /\ hist = <<>>
  /\ formFound
  /\ stoppedAt = Some(1)
  /\ \E r \in PendingRecords :
       r.type = "field-analytics" /\ r.data.totalFieldsInteracted = 0

\* the records created by the step: they are pending after it
Created == {r \in PendingRecords' : r.id >= nextId}

(***************************************************************************)
(* C21.  Each firing of a heartbeat timer enqueues exactly one heartbeat    *)
(* record, and after it one field-analytics record with reason "periodic"  *)
(* exactly when the Metric Store holds at least one field record at that   *)
(* moment; nothing else is enqueued.                                       *)
(***************************************************************************)
C21_HeartbeatEmissions ==
  [][last'.op = "heartbeat" =>
       LET populated == Len(fieldMetrics) > 0
       IN /\ nextId' = nextId + (IF populated THEN 2 ELSE 1)
          /\ Count(last'.trace, "enqueue") = nextId' - nextId
          /\ last'.trace[1] = "enqueue"
          /\ \E r \in Created :
               /\ r.id = nextId
               /\ r.type = "heartbeat"
               /\ r.data = [tSinceStart |-> MathRoundDiv(now - startedAt, 1000)]
          /\ populated <=>
               \E r \in Created :
                 /\ r.id = nextId + 1
                 /\ r.type = "field-analytics"
                 /\ r.data.reason = "periodic"
          /\ \A r \in Created : r.type \in {"heartbeat", "field-analytics"}
          /\ Cardinality({r \in Created : r.type = "heartbeat"}) = 1]_vars

\* a heartbeat after field A was entered made the heartbeat record and then
\* the periodic summary, which reports the field
C21_Witness ==
  /\ last.op = "heartbeat"
  /\ Count(last.trace, "enqueue") = 2
  /\ Len(fieldMetrics) = 1
  /\ \E r1, r2 \in PendingRecords :
       /\ r1.type = "heartbeat"
       /\ r2.type = "field-analytics" /\ r2.data.reason = "periodic"
       /\ r2.id = r1.id + 1 /\ r2.id = nextId - 1
       /\ r2.data.totalFieldsInteracted = 1

\* the handlers that call sendFieldMetricsSummary
SummaryOps == {"heartbeat", "beforeunload", "visibilitychange", "stop"}

\* the per-field entry of a field-analytics record agrees with the record m
\* of the Metric Store
ReportsMetrics(entry, m) ==
  /\ entry.field = m.field
  /\ entry.focusCount = m.focusCount
  /\ entry.totalTimeSpentMs = m.totalTimeSpent
  /\ entry.editCount = m.editCount
  /\ entry.validationFailures = m.validationFailures
  /\ entry.backspaceCount = m.backspaceCount
  /\ entry.pasteCount = m.pasteCount
  /\ entry.clearCount = m.clearCount

(***************************************************************************)
(* C22.  sendFieldMetricsSummary(reason) is read-only with respect to the  *)
(* metrics: a handler that calls it leaves every Field Metric Record, the  *)
(* currently-focused field and the focus-start timestamp as they were, and *)
(* the call makes one field-analytics record that reports them.  In the    *)
(* heartbeat, whose only other call is the enqueue of the heartbeat        *)
(* record, the two records are appended to the queue and nothing else      *)
(* changes.                                                                *)
(***************************************************************************)
C22_SummaryIsReadOnly ==
  [][last'.op \in SummaryOps /\ initCount = 1 /\ Len(fieldMetrics) > 0 =>
       LET faId == IF last'.op = "heartbeat" THEN nextId + 1 ELSE nextId
       IN /\ UNCHANGED <<fieldMetrics, currentFocusedField, fieldFocusStartTime>>
          /\ nextId' = nextId + 2
          /\ Count(last'.trace, "enqueue") = 2
          /\ \A r \in Created :
               r.type = "field-analytics" <=> r.id = faId
          /\ \A r \in Created :
               r.id = faId =>
                 /\ r.data.dropOffField = currentFocusedField
                 /\ Len(r.data.allFieldMetrics) = Len(fieldMetrics)
                 /\ \A i \in 1..Len(fieldMetrics) :
                      ReportsMetrics(r.data.allFieldMetrics[i], fieldMetrics[i])
          /\ \A id \in {nextId, nextId + 1} :
               \/ \E r \in Created : r.id = id
               \/ [id |-> id, via |-> "beacon"] \in delivered'
          /\ last'.op = "heartbeat" =>
               /\ Ids(events') = Ids(events) \o <<nextId, nextId + 1>>
               /\ SubSeq(events', 1, Len(events)) = events
               /\ UNCHANGED <<sessionId, batchSize, isInitialized, isUnloading,
                              flushTimer, flushPending, initCount, inflight,
                              delivered, coalescerVars, moConnected>>]_vars

\* a periodic summary of a store with field A over the focus threshold, taken
\* while A is focused: the record is queued behind the heartbeat record, and
\* the store and the focus tracking are still what it reports
C22_Witness ==
  /\ last.op = "heartbeat"
  /\ currentFocusedField = Some("A")
  /\ fieldFocusStartTime = Some(2 * TimeSpentThreshold)
  /\ Len(fieldMetrics) = 2
  /\ fieldMetrics[1].focusCount = FocusCountThreshold + 1
  /\ Len(events) = 3
  /\ events[2].type = "heartbeat"
  /\ events[3].type = "field-analytics"
  /\ events[3].data.dropOffField = Some("A")
  /\ events[3].data.painPointCount >= 1
  /\ \A i \in 1..2 : ReportsMetrics(events[3].data.allFieldMetrics[i], fieldMetrics[i])

\* the counters of a Field Metric Record
Counters ==
  {"focusCount", "totalTimeSpent", "editCount", "validationFailures",
   "backspaceCount", "pasteCount", "clearCount"}

\* the per-field entries of a field-analytics record
EntriesOf(r) == Range(r.data.allFieldMetrics)

\* no counter of the entry e1 is above its value in the entry e2
EntryAtMost(e1, e2) ==
  /\ e1.focusCount <= e2.focusCount
  /\ e1.totalTimeSpentMs <= e2.totalTimeSpentMs
  /\ e1.editCount <= e2.editCount
  /\ e1.validationFailures <= e2.validationFailures
  /\ e1.backspaceCount <= e2.backspaceCount
  /\ e1.pasteCount <= e2.pasteCount
  /\ e1.clearCount <= e2.clearCount

FocusNotices(h) == {i \in 1..Len(h) : h[i].op \in {"focus", "blur"}}

\* the field of the last focus notice of h when no blur notice follows it
FocusedAfter(h) ==
  IF FocusNotices(h) = {} THEN None
  ELSE LET i == CHOOSE k \in FocusNotices(h) : \A j \in FocusNotices(h) : j <= k
       IN IF h[i].op = "focus" THEN Some(h[i].field) ELSE None

\* the fields some notice of the history h other than a blur was about (a
\* blur reads the field's record and makes none)
Touched(h) == {h[i].field : i \in {j \in 1..Len(h) : h[j].op # "blur"}}

LastFocused(h) ==
  LET focuses == {i \in 1..Len(h) : h[i].op = "focus"}
  IN IF focuses = {} THEN None
     ELSE Some(h[CHOOSE k \in focuses : \A j \in focuses : j <= k].field)

\* the handlers that end a session
SessionEndOps == {"beforeunload", "visibilitychange", "stop"}

(***************************************************************************)
(* C25.  The field-analytics record made at session end (reason unload,    *)
(* hidden or stop) names as dropOffField the last field the user focused   *)
(* during the session, whenever at least one field was focused.            *)
(***************************************************************************)
C25_DropOffIsLastFocused ==
  [][last'.op \in SessionEndOps /\ LastFocused(hist) # None =>
       \A r \in Created :
         r.type = "field-analytics" => r.data.dropOffField = LastFocused(hist)]_vars

\* the public operations
PublicOps == {"init", "stop"}

(***************************************************************************)
(* C26.  init and stop never raise an exception to their caller, for every *)
(* configuration and every host (form not found, no MutationObserver, no   *)
(* sendBeacon), also when an enqueue inside the call flushes a batch whose *)
(* delivery fails.                                                         *)
(***************************************************************************)
C26_PublicOpsNeverThrow ==
  last.op \in PublicOps => "throw" \notin Range(last.trace)

\* the form notices
NoticeOps == {"focus", "blur", "change", "invalid", "keydown", "paste"}

(***************************************************************************)
(* C27.  An exception raised while the path of the notice's target is      *)
(* derived is caught inside the handler: it does not reach the host page,  *)
(* no record is made for the notice, and the Event Queue and the Metric    *)
(* Store are as they were.                                                 *)
(***************************************************************************)
C27_HandlerFaultsAreCaught ==
  [][/\ last'.op \in NoticeOps
     /\ Len(hist') = Len(hist) + 1
     /\ hist'[Len(hist')].field = PathThrows
     => /\ "uncaught" \notin Range(last'.trace)
        /\ nextId' = nextId
        /\ UNCHANGED <<events, inflight, delivered, fieldMetrics,
                       currentFocusedField, fieldFocusStartTime>>]_vars

\* two texts of the same length and the same character-class kind
SameClass(v1, v2) == Len(v1) = Len(v2) /\ CharacterKind(v1) = CharacterKind(v2)

TimeSpentOf(fm, f) ==
  IF getFieldMetrics(fm, f) = None THEN 0 ELSE getFieldMetrics(fm, f)[1].totalTimeSpent

(***************************************************************************)
(* C29.  totalTimeSpent accrues only for the focused field: a step changes *)
(* the totalTimeSpent of a field only if it is a blur notice of that       *)
(* field, the field is the focused one and its focus start is set, and     *)
(* then by the time since that start; every other operation leaves every   *)
(* totalTimeSpent as it was; and at most one field identifier is tracked   *)
(* as focused.                                                             *)
(***************************************************************************)
C29_TimeAccruesOnlyForFocused ==
  [][/\ \A f \in Fields :
          TimeSpentOf(fieldMetrics', f) # TimeSpentOf(fieldMetrics, f) =>
            /\ last'.op = "blur"
            /\ Len(hist') = Len(hist) + 1
            /\ hist'[Len(hist')].op = "blur"
            /\ hist'[Len(hist')].field = f
            /\ currentFocusedField = Some(f)
            /\ FocusStartIsTruthy(fieldFocusStartTime)
            /\ TimeSpentOf(fieldMetrics', f) =
                 TimeSpentOf(fieldMetrics, f) + (now - fieldFocusStartTime[1])
     /\ Cardinality({f \in Fields :
                       TimeSpentOf(fieldMetrics', f) # TimeSpentOf(fieldMetrics, f)}) <= 1
     /\ Len(currentFocusedField') <= 1
     /\ (currentFocusedField' # None => currentFocusedField'[1] \in Fields)]_vars

\* field A was entered at 100 and left at 200, with 100 ms credited to it and
\* nothing to field B, and no field is focused
C29_Witness ==
  /\ Len(hist) = 2
  /\ hist[1].op = "focus" /\ hist[1].field = "A" /\ hist[1].t = 100
  /\ hist[2].op = "blur" /\ hist[2].field = "A" /\ hist[2].t = 200
  /\ TimeSpentOf(fieldMetrics, "A") = 100
  /\ TimeSpentOf(fieldMetrics, "B") = 0
  /\ currentFocusedField = None

\* the validationFailures of the record of field f in the store fm, 0 without
\* one
FailuresOf(fm, f) ==
  IF getFieldMetrics(fm, f) = None THEN 0
  ELSE getFieldMetrics(fm, f)[1].validationFailures

\* what the notice n adds to the validationFailures of its field
FailuresAdded(n) ==
  IF \/ n.op = "invalid"
     \/ n.op = "change" /\ n.validity = "invalid"
    THEN 1 ELSE 0

(***************************************************************************)
(* C30.  A change notice whose validity is invalid and an explicit-invalid *)
(* notice each add exactly 1 to the validationFailures of their field (an  *)
(* edit reported through both adds 2); a change notice with valid or       *)
(* missing validity, every other notice and every other step leave every   *)
(* validationFailures as it was.                                           *)
(***************************************************************************)
C30_ValidationFailuresCount ==
  [][\A f \in Fields :
       FailuresOf(fieldMetrics', f) =
         FailuresOf(fieldMetrics, f) +
           (IF Len(hist') = Len(hist) + 1 /\ hist'[Len(hist')].field = f
              THEN FailuresAdded(hist'[Len(hist')]) ELSE 0)]_vars

\* the session is stopped and has not been started again
Stopped == StoppedSession /\ ~isInitialized /\ stoppedAt = Some(initCount)

(***************************************************************************)
(* C31.  After stop has returned no Event Record is appended to the Event  *)
(* Queue as long as init is not called again: a step of a stopped session  *)
(* other than a call of init or stop (a heartbeat, a notice, a timer, a    *)
(* completion of a request) creates no record.                             *)
(***************************************************************************)
C31_NothingEnqueuedAfterStop ==
  [][Stopped /\ last'.op \notin {"init", "stop"} => nextId' = nextId]_vars

(***************************************************************************)
(* C32.  When stop returns the Event Queue is empty: every record that was *)
(* enqueued before or during stop is in a batch handed to a transport,     *)
(* whatever the length of the queue was.                                   *)
(***************************************************************************)
C32_StopEmptiesQueue ==
  last.op = "stop" => events = <<>>

\* the record with identifier id is in the Event Queue
InQueue(id) == \E i \in 1..Len(events) : events[i].id = id

C34_OutcomeAddsNoRecord ==
  [][/\ last'.op = "fetch-http-error" => events' = events /\ nextId' = nextId
     /\ last'.op = "fetch-reject" =>
          /\ nextId' = nextId
          /\ \E i \in 1..Len(inflight) :
               /\ Ids(inflight[i].body.events) = last'.arg
               /\ events' = inflight[i].body.events \o events]_vars

(***************************************************************************)
(* C35.  The coalescing timer is armed only when the buffer holds at least *)
(* one notice, and every dom-mutation record that is emitted carries       *)
(* between 1 and maxMutationRecordsPerBatch notices, also after a delivery *)
(* of the observer that puts no notice in the buffer.                      *)
(***************************************************************************)
C35_TimerArmedOnlyWithNotices ==
  [][/\ last'.op = "mutations" /\ mutationPending' > mutationPending =>
          Len(mutationBuffer') >= 1
     /\ last'.op = "mutation-timer" =>
          \A r \in Created :
            r.type = "dom-mutation" =>
              /\ Len(r.data.changes) >= 1
              /\ Len(r.data.changes) <= maxMutationRecordsPerBatch]_vars

(***************************************************************************)
(* C36.  A blur notice of a field that is not the focused field leaves the *)
(* focused-field identifier and the focus-start time as they were, so that *)
(* the time of the field that is focused is still added at its own blur.   *)
(***************************************************************************)
C36_BlurOfOtherFieldKeepsFocus ==
  [][/\ last'.op = "blur"
     /\ Len(hist') = Len(hist) + 1
     /\ currentFocusedField # Some(hist'[Len(hist')].field)
     => UNCHANGED <<currentFocusedField, fieldFocusStartTime>>]_vars

(***************************************************************************)
(* C37.  As long as no batch request has failed, the Event Queue holds     *)
(* fewer than batchSize records whenever no handler is running.            *)
(***************************************************************************)
C37_QueueBelowBatchSize ==
  failures = 0 => Len(events) < batchSize

\* the focusCount of the record of field f in the store fm, 0 without one
FocusCountOf(fm, f) ==
  IF getFieldMetrics(fm, f) = None THEN 0 ELSE getFieldMetrics(fm, f)[1].focusCount

(***************************************************************************)
(* C38.  Focus tracking is consistent in every reachable state: the        *)
(* focus-start time is set if and only if the focused-field identifier is  *)
(* set, and a set identifier has a record in the Metric Store whose        *)
(* focusCount is at least 1.                                               *)
(***************************************************************************)
C38_FocusTrackingConsistent ==
  /\ fieldFocusStartTime # None <=> currentFocusedField # None
  /\ currentFocusedField # None =>
       /\ getFieldMetrics(fieldMetrics, currentFocusedField[1]) # None
       /\ FocusCountOf(fieldMetrics, currentFocusedField[1]) >= 1

\* field A was changed without a focus notice and field B was entered at
\* 200: B is tracked with its start time and has been focused once, A has a
\* record that was never focused
C38_Witness ==
  /\ Len(hist) = 2
  /\ hist[1].op = "change" /\ hist[1].field = "A"
  /\ hist[2].op = "focus" /\ hist[2].field = "B"
  /\ currentFocusedField = Some("B")
  /\ fieldFocusStartTime = Some(200)
  /\ FocusCountOf(fieldMetrics, "B") = 1
  /\ getFieldMetrics(fieldMetrics, "A") # None
  /\ FocusCountOf(fieldMetrics, "A") = 0
====
